---- MODULE Spec2Model ----
(***************************************************************************)
(* Model of the loan-applications verification engine                      *)
(* (app/services/client_verification.py) over the verifications table      *)
(* (app/models/client_verification.py).                                    *)
(*                                                                         *)
(* The record store is modelled as the sequence of Verification rows in    *)
(* insertion (primary key) order.  Every service call runs on one session  *)
(* and commits before it returns, so a call is one atomic step.            *)
(* Query.first() is issued without ORDER BY: the row it returns among the  *)
(* matching ones is not fixed by the code, so it is a nondeterministic     *)
(* choice over the matching rows.                                          *)
(* Time is counted in hours.                                               *)
(* The declarative Base (app/models/base.py) and the column types are the  *)
(* record store's side: a row is taken to be built from the keyword        *)
(* arguments of Verification(...) and the column defaults, and a status is *)
(* the value of its VerificationStatus member.                             *)
(***************************************************************************)
EXTENDS Integers, Sequences, FiniteSets, TLC

(* ------------------------------ bounds -------------------------------- *)
\* rows the verifications table may hold
MaxRecords == 3
\* the clock stops advancing here (hours)
MaxNow == 48
\* service calls made in one behaviour
MaxCalls == 5
\* runs of execute_workflow in one behaviour, first deliveries and retries
MaxRuns == 4

\* invalidation messages published and not yet received
MaxMessages == 1
\* the most invocations of execute_workflow followed under fairness
MaxFairRuns == 2

(* -------------------- enumerations of the data model ------------------- *)
PENDING == "pending"
VERIFIED == "verified"
EXPIRED == "expired"
FAILED == "failed"
VerificationStatus == {PENDING, VERIFIED, EXPIRED, FAILED}

EMAIL == "email"
SMS == "sms"
IDENTITY_DOCUMENT == "identity_document"
VerificationType == {EMAIL, SMS, IDENTITY_DOCUMENT}

CONTACT == "contact"
IDENTITY == "identity"
VerificationCategory == {CONTACT, IDENTITY}
\* default of initiate_verification's category parameter
DefaultCategory == CONTACT

\* Python None for verification_code / verified_at
NoneCode == << >>
NoneTime == -1
\* "no row" result of Query.first()
NoRow == 0

\* Column defaults of Verification
DefaultAttempts == 0
DefaultMaxAttempts == 3
\* timedelta(hours=24) in _create_verification
ExpiryHours == 24
\* default length of _generate_verification_code
CodeLength == 6
\* string.digits, as the digit values of its characters
string_digits == 0..9

(* --------------------------- applications ------------------------------ *)
\* the rows of loan_applications the verification engine is called for
LoanApplications == {[id |-> 1, request_id |-> "request-1"]}
Applications == {a.id : a \in LoanApplications}
RequestIdOf(a) == (CHOOSE r \in LoanApplications : r.id = a).request_id
\* a request id that matches no application
UnknownRequestId == "request-unknown"
RequestIds == {RequestIdOf(a) : a \in Applications} \cup {UnknownRequestId}

(* ------------------------ application workflow ------------------------ *)
\* LoanApplicationStatus; its VERIFIED has the value of VerificationStatus.VERIFIED
SUBMITTED == "submitted"
AWAITING_VERIFICATION == "awaiting_verification"
PREPROCESSING == "preprocessing"
DATA_ENRICHMENT == "data_enrichment"
SCORING == "scoring"
MANUAL_REVIEW == "manual_review"
APPROVED == "approved"
REJECTED == "rejected"
ERROR == "error"
LoanApplicationStatus == {SUBMITTED, AWAITING_VERIFICATION, VERIFIED, PREPROCESSING,
                          DATA_ENRICHMENT, SCORING, MANUAL_REVIEW, APPROVED,
                          REJECTED, ERROR}

\* decision_reason and event_data of a row that has none
NoneReason == ""

\* the columns of a loan_applications row the workflow reads and writes
LoanApplication(status, decision_reason) ==
    [status |-> status, decision_reason |-> decision_reason]
\* the row create_loan_application inserts
SubmittedApplication == LoanApplication(SUBMITTED, NoneReason)

\* a row of audit_logs
AuditLog(application_id, event_type, reason) ==
    [application_id |-> application_id, event_type |-> event_type, reason |-> reason]

\* the stage tasks, and the two ways the code dispatches them
Stages == <<"preprocess_application", "enrich_application_data", "calculate_risk_score">>
Dispatch(task, request_id, by) == [task |-> task, request_id |-> request_id, by |-> by]
\* chain(preprocess_application.s(request_id), enrich_application_data.s(),
\* calculate_risk_score.s()).delay()
workflow_chain(request_id) ==
    [i \in 1..Len(Stages) |-> Dispatch(Stages[i], request_id, "create_application")]

\* the application the verification engine is called for has been created by
\* create_application: its row, its audit row and its chain exist
CreatedApplications == [a \in Applications |-> SubmittedApplication]
CreatedAuditLogs == <<AuditLog(1, "APPLICATION_SUBMITTED", NoneReason)>>
CreatedDispatches == workflow_chain(RequestIdOf(1))

\* The position of the workflow task: the statement it executes next, the
\* request it was delivered for, the application it loaded, the retries of the
\* task so far, the runs of execute_workflow so far, the arguments of the
\* _update_status call it is in, and the locals enrichment_result and
\* scoring_result (preprocessing_result is never read)
NoResult == [status |-> "None"]
Position(pc, request_id, application, retries, runs, status, reason) ==
    [pc |-> pc, request_id |-> request_id, application |-> application,
     retries |-> retries, runs |-> runs, status |-> status, reason |-> reason,
     enrichment_result |-> NoResult, scoring_result |-> NoResult]
\* no invocation of execute_workflow is running
Idle == Position("idle", "", 0, 0, 0, "", NoneReason)

(* --------------------------- enum resolution --------------------------- *)
\* the enum the loan application form resolves, and its EnumValue rows in
\* display_order
EnumName == "housing_type"
EnumValues == <<"own", "rent">>

\* an EnumValue row of the enum
EnumValue(value, is_active) == [value |-> value, is_active |-> is_active]

\* The record store's rows of the enum: the is_active flag of the EnumType row
\* (a missing row reads like an inactive one) and its EnumValue rows
EnumRows(is_active, values) == [is_active |-> is_active, values |-> values]
EnumStores == {EnumRows(is_active, {EnumValue("own", TRUE), EnumValue("rent", rent)}) :
                   is_active \in BOOLEAN, rent \in BOOLEAN}
SeededEnum == EnumRows(TRUE, {EnumValue("own", TRUE), EnumValue("rent", TRUE)})

\* a key without a value in the cache, a local without a value
Absent == [absent |-> TRUE]
NoInfo == [status |-> "None"]

\* the cache keys of the two functions: f"enum_info:{enum_name}" and
\* f"enum_full_info:{enum_name}"
Kinds == {"enum_info", "enum_full_info"}
cache_key(kind, enum_name) == kind \o ":" \o enum_name
EmptyCache == [key \in {cache_key(kind, EnumName) : kind \in Kinds} |-> Absent]

\* json.dumps and json.loads
dumps(info) == [json |-> info]
loads(cached) == cached.json

\* the body of a message on the channel enum_changes: a JSON object with the
\* fields of a payload, JSON that is no object, or no JSON
NoneName == "None"
NoneAction == "None"
Message(enum_name, action) ==
    [json |-> TRUE, object |-> TRUE, enum_name |-> enum_name, action |-> action]
NotJson == [json |-> FALSE, object |-> FALSE, enum_name |-> NoneName, action |-> NoneAction]
NotObject == [json |-> TRUE, object |-> FALSE, enum_name |-> NoneName, action |-> NoneAction]
EnumActions == {"insert", "update", "delete"}
NoMessage == Message(NoneName, NoneAction)

\* The position of a coroutine in get_valid_enum_values or get_enum_full_info
\* (kind is the prefix of the cache key of the function): the await it is at,
\* the local info, and what the call returned or raised. The request handler
\* also records whether its call started after every published message had
\* been processed; the subscriber keeps the message it received last,
\* whether a handler was in a call while it processed it, and the await at
\* which it was cancelled.
Handler == [pc |-> "idle", kind |-> "enum_info", info |-> NoInfo, result |-> NoInfo,
            fresh |-> FALSE]
Subscriber == [pc |-> "idle", kind |-> "enum_info", info |-> NoInfo, result |-> NoInfo,
               message |-> NoMessage, key |-> 0, concurrent |-> FALSE,
               cancelled_at |-> "None"]
EnumTasks == [handler |-> Handler, subscriber |-> Subscriber]

\* What startup_services has set up: the Redis server can be reached, the
\* subscriber task is started with its database session, the connection pool
\* is open, and shutdown_services has not been called
Running == [redis |-> "connected", shutdown |-> "None",
            db_session |-> "open", redis_pool |-> "open"]

VARIABLES verifications, now, lastCall, calls,
          outbox, applications, audit_logs, workflow, dispatched,
          enum_store, enum_cache, enum_channel, enum_tasks, services, sessions,
          intake

vars == <<verifications, now, lastCall, calls,
          outbox, applications, audit_logs, workflow, dispatched,
          enum_store, enum_cache, enum_channel, enum_tasks, services, sessions,
          intake>>

\* what the verification engine and the workflow never touch
EnumFrame ==
    UNCHANGED <<enum_store, enum_cache, enum_channel, enum_tasks, services, sessions,
          intake>>


(* ------------------------- pure helpers -------------------------------- *)
\* The possible results of Query.first() over the rows `matching`: one of
\* them (no ORDER BY is given), or no row
first(matching) == IF matching = {} THEN {NoRow} ELSE matching

\* the digits the sampled generator repeats
SampleDigits == {0}

\* random.choices(string.digits, k=length), joined: a string of `length`
\* digit characters; the sample keeps the strings that repeat one of
\* SampleDigits
_generate_verification_code(length) ==
    {[i \in 1..length |-> d] : d \in string_digits \cap SampleDigits}

\* Python's == between the stored code (str or None) and a submitted str
CodeEquals(stored, submitted) == stored # NoneCode /\ stored = submitted

\* Codes a caller may submit: every code the generator may have issued and
\* one four-character code that is never issued
NeverIssuedCode == <<9, 9, 9, 9>>
SubmittedCodes == _generate_verification_code(CodeLength) \cup {NeverIssuedCode}

\* The Verification(...) row built by _create_verification, with the column
\* defaults of the model class
NewVerification(application_id, category, verification_type, code, t) ==
    [application_id    |-> application_id,
     category          |-> category,
     verification_type |-> verification_type,
     verification_code |-> code,
     status            |-> PENDING,
     attempts          |-> DefaultAttempts,
     max_attempts      |-> DefaultMaxAttempts,
     expires_at        |-> t + ExpiryHours,
     verified_at       |-> NoneTime]

\* The placeholder kept in lastCall.before when a call touched no row
NoVerification ==
    [application_id    |-> 0,
     category          |-> "",
     verification_type |-> "",
     verification_code |-> NoneCode,
     status            |-> "",
     attempts          |-> 0,
     max_attempts      |-> 0,
     expires_at        |-> NoneTime,
     verified_at       |-> NoneTime]

\* What one service call did: its name and arguments (of the submitted code,
\* whether it equals the code of the selected row), the row it selected (id,
\* and the row as it was before the call), the row it created, and the result
\* it returned
Call(op, application_id, verification_type, code, new_status, row, created, success, message) ==
    [op                |-> op,
     application_id    |-> application_id,
     verification_type |-> verification_type,
     matches           |-> row # NoRow /\ CodeEquals(verifications[row].verification_code, code),
     new_status        |-> new_status,
     row               |-> row,
     before            |-> IF row = NoRow THEN NoVerification ELSE verifications[row],
     created           |-> created,
     success           |-> success,
     message           |-> message]

\* application.email for the email channel, application.phone otherwise
TargetOf(verification_type) == IF verification_type = EMAIL THEN "email" ELSE "phone"

\* the dummy sender, as the log of its invocations: one line per call, naming
\* the row, its code and the target
_send_verification_code(id, verification, target) ==
    Append(outbox, [verification_id |-> id,
                    verification_code |-> verification.verification_code,
                    method |-> verification.verification_type,
                    target |-> target])

(* ------------------------- database sessions --------------------------- *)
\* The requests served at the same time, each with a database session of its
\* own (get_db yields one AsyncSession per request)
Sessions == {1, 2}

\* Where one request stands in its service call: the call and its arguments,
\* the row its query selected, that row's attributes as the query loaded them
\* into the session, and the message of the result it returned
Session ==
    [pc                |-> "idle",
     op                |-> "none",
     application_id    |-> 0,
     verification_type |-> "",
     verification_code |-> NoneCode,
     row               |-> NoRow,
     loaded            |-> NoVerification,
     message           |-> ""]

NoSessions == [s \in Sessions |-> Session]

(* ------------------------------- intake -------------------------------- *)
\* the enum names _validate_dynamic_enums resolves, in the order of its calls
\* (lines 26, 32, 39, 46)
DynamicEnums == <<"housing_type", "education_level", "martial_status", "income_type">>

\* application_data.income_type is read at line 48; LoanApplicationCreate
\* names it in a validator and declares income_sources instead: the attribute
\* is either this list or missing
MissingAttribute == <<"AttributeError">>

\* the dynamic enum attributes of a submission
ApplicationData(housing_type, education_level, marital_status, income_type) ==
    [housing_type |-> housing_type, education_level |-> education_level,
     marital_status |-> marital_status, income_type |-> income_type]

\* Where the request POST /applications stands: the statement it executes
\* next, the submission, what get_valid_enum_values answered for each of the
\* resolved names, and the status code of the response
NoIntake ==
    [pc |-> "idle",
     application_data |-> ApplicationData("", "", "", << >>),
     info |-> << >>,
     status_code |-> 0]

(* ------------------------------ Init ----------------------------------- *)
\* lastCall before any call, and after the clock has advanced
NoCall == [op |-> "none", application_id |-> 0, verification_type |-> "",
           matches |-> FALSE, new_status |-> "", row |-> NoRow,
           before |-> NoVerification, created |-> NoRow, success |-> FALSE, message |-> ""]

Init ==
    /\ verifications = << >>
    /\ now = 0
    /\ lastCall = NoCall
    /\ calls = 0
    /\ outbox = << >>
    /\ applications = CreatedApplications
    /\ audit_logs = CreatedAuditLogs
    /\ workflow = Idle
    /\ dispatched = CreatedDispatches
    /\ enum_store = SeededEnum
    /\ enum_cache = EmptyCache
    /\ enum_channel = << >>
    /\ enum_tasks = EnumTasks
    /\ services = Running
    /\ sessions = NoSessions
    /\ intake = NoIntake

(* ----------------------- initiate_verification ------------------------- *)
\* Faulty variant: the supersession query also matches verified rows
ExistingFilter_AlsoVerified(v, application_id, verification_type) ==
    /\ v.application_id = application_id
    /\ v.verification_type = verification_type
    /\ v.status \in {PENDING, EXPIRED, VERIFIED}

\* the filter of the `existing` query
ExistingFilter(v, application_id, verification_type) ==
    /\ v.application_id = application_id
    /\ v.verification_type = verification_type
    /\ v.status \in {PENDING, EXPIRED}

\* the code given to a new row of the given type
CodesFor(verification_type) ==
    IF verification_type # IDENTITY_DOCUMENT
    THEN _generate_verification_code(CodeLength)
    ELSE {NoneCode}

initiate_verification(application, verification_type, category) ==
    /\ Len(verifications) < MaxRecords
    /\ \E existing \in first({i \in DOMAIN verifications :
                ExistingFilter(verifications[i], application, verification_type)}) :
       \E code \in CodesFor(verification_type) :
          LET invalidated == IF existing # NoRow
                             THEN [verifications EXCEPT ![existing].status = EXPIRED]
                             ELSE verifications
              verification == NewVerification(application, category,
                                              verification_type, code, now)
          IN /\ verifications' = Append(invalidated, verification)
             /\ lastCall' = Call("initiate_verification", application,
                                 verification_type, code, "", existing,
                                 Len(verifications) + 1, TRUE,
                                 IF verification_type = IDENTITY_DOCUMENT
                                 THEN "Manual identity verification initiated. Awaiting admin review."
                                 ELSE "")
             /\ outbox' = IF verification_type = IDENTITY_DOCUMENT
                          THEN outbox
                          ELSE _send_verification_code(Len(verifications) + 1,
                                                       verification,
                                                       TargetOf(verification_type))
    /\ UNCHANGED <<now, applications, audit_logs>>

\* The session raises in one of the two commits of initiate_verification and
\* the exception leaves the handler: a failure of the commit of line 49 loses
\* the expiry mark with the session; a failure of the commit of line 116 loses
\* the new row only, the expiry mark has been committed before
InitiateCommits == {"invalidate", "create"}

initiate_verification_storage_error(application, verification_type, commit) ==
    /\ \E existing \in first({i \in DOMAIN verifications :
                ExistingFilter(verifications[i], application, verification_type)}) :
          /\ commit = "invalidate" => existing # NoRow
          /\ verifications' = IF commit = "create" /\ existing # NoRow
                              THEN [verifications EXCEPT ![existing].status = EXPIRED]
                              ELSE verifications
          /\ lastCall' = Call("initiate_verification", application,
                              verification_type, NoneCode, "", existing, NoRow,
                              FALSE, "storage error")
    /\ UNCHANGED <<now, outbox, applications, audit_logs>>

\* The call of the sender at line 74 raises: the sender is a method called in
\* line, after the commits, with no exception handler around it, so that its
\* exception leaves initiate_verification in place of the return value
initiate_verification_sender_error(application, verification_type, category) ==
    /\ Len(verifications) < MaxRecords
    /\ verification_type # IDENTITY_DOCUMENT
    /\ \E existing \in first({i \in DOMAIN verifications :
                ExistingFilter(verifications[i], application, verification_type)}) :
       \E code \in CodesFor(verification_type) :
          LET invalidated == IF existing # NoRow
                             THEN [verifications EXCEPT ![existing].status = EXPIRED]
                             ELSE verifications
              verification == NewVerification(application, category,
                                              verification_type, code, now)
          IN /\ verifications' = Append(invalidated, verification)
             /\ lastCall' = Call("initiate_verification", application,
                                 verification_type, code, "", existing,
                                 Len(verifications) + 1, FALSE, "sender error")
             /\ outbox' = _send_verification_code(Len(verifications) + 1,
                                                  verification,
                                                  TargetOf(verification_type))
    /\ UNCHANGED <<now, applications, audit_logs>>

(* ----------------------------- verify_code ----------------------------- *)
\* Faulty variant: the query forgets the request_id condition
ApplicationByRequestId_AnyApplication(request_id) ==
    first(Applications)

\* the filter of the LoanApplication query
ApplicationByRequestId(request_id) ==
    first({a \in Applications : RequestIdOf(a) = request_id})

\* Faulty variant: the query forgets the status condition
PendingFilter_AnyStatus(v, application_id, verification_type) ==
    /\ v.application_id = application_id
    /\ v.verification_type = verification_type

\* the filter of the pending Verification query
PendingFilter(v, application_id, verification_type) ==
    /\ v.application_id = application_id
    /\ v.verification_type = verification_type
    /\ v.status = PENDING

\* The result records of verify_code's four branches
Expired(v) ==
    [row |-> [v EXCEPT !.status = EXPIRED],
     success |-> FALSE, message |-> "Verification code expired"]
Exhausted(v) ==
    [row |-> [v EXCEPT !.status = FAILED],
     success |-> FALSE, message |-> "Maximum attempts exceeded"]
Successful(v, t) ==
    [row |-> [v EXCEPT !.status = VERIFIED, !.verified_at = t],
     success |-> TRUE, message |-> "Verification successful"]
Invalid(v) ==
    [row |-> v, success |-> FALSE, message |-> "Invalid verification code"]

\* Faulty variant: attempt exhaustion is checked before expiry
VerifyCodeBranch_ExhaustionFirst(v, verification_code, t) ==
    IF v.attempts >= v.max_attempts THEN Exhausted(v)
    ELSE IF t > v.expires_at THEN Expired(v)
    ELSE LET counted == [v EXCEPT !.attempts = @ + 1]
         IN IF CodeEquals(counted.verification_code, verification_code)
            THEN Successful(counted, t)
            ELSE Invalid(counted)

\* Faulty variant: the mismatch that uses up the last attempt fails the row
VerifyCodeBranch_FailOnLastMismatch(v, verification_code, t) ==
    IF t > v.expires_at THEN Expired(v)
    ELSE IF v.attempts >= v.max_attempts THEN Exhausted(v)
    ELSE LET counted == [v EXCEPT !.attempts = @ + 1]
         IN IF CodeEquals(counted.verification_code, verification_code)
            THEN Successful(counted, t)
            ELSE IF counted.attempts >= counted.max_attempts
            THEN [Invalid(counted) EXCEPT !.row.status = FAILED]
            ELSE Invalid(counted)

\* Faulty variant: the exhaustion check is off by one (> for >=)
VerifyCodeBranch_OffByOne(v, verification_code, t) ==
    IF t > v.expires_at THEN Expired(v)
    ELSE IF v.attempts > v.max_attempts THEN Exhausted(v)
    ELSE LET counted == [v EXCEPT !.attempts = @ + 1]
         IN IF CodeEquals(counted.verification_code, verification_code)
            THEN Successful(counted, t)
            ELSE Invalid(counted)

\* Faulty variant: the incremented attempts are not committed on a mismatch
VerifyCodeBranch_MismatchNotPersisted(v, verification_code, t) ==
    IF t > v.expires_at THEN Expired(v)
    ELSE IF v.attempts >= v.max_attempts THEN Exhausted(v)
    ELSE LET counted == [v EXCEPT !.attempts = @ + 1]
         IN IF CodeEquals(counted.verification_code, verification_code)
            THEN Successful(counted, t)
            ELSE Invalid(v)

\* Faulty variant: verified_at is not stamped on success
VerifyCodeBranch_NoStamp(v, verification_code, t) ==
    IF t > v.expires_at THEN Expired(v)
    ELSE IF v.attempts >= v.max_attempts THEN Exhausted(v)
    ELSE LET counted == [v EXCEPT !.attempts = @ + 1]
         IN IF CodeEquals(counted.verification_code, verification_code)
            THEN Successful(counted, counted.verified_at)
            ELSE Invalid(counted)

\* Faulty variant: attempts are incremented only when the code mismatches
VerifyCodeBranch_CountMismatchOnly(v, verification_code, t) ==
    IF t > v.expires_at THEN Expired(v)
    ELSE IF v.attempts >= v.max_attempts THEN Exhausted(v)
    ELSE IF CodeEquals(v.verification_code, verification_code)
         THEN Successful(v, t)
         ELSE Invalid([v EXCEPT !.attempts = @ + 1])

\* Faulty variant: attempts are incremented before the expiry and exhaustion
\* checks
VerifyCodeBranch_CountFirst(v, verification_code, t) ==
    LET counted == [v EXCEPT !.attempts = @ + 1]
    IN IF t > v.expires_at THEN Expired(counted)
       ELSE IF v.attempts >= v.max_attempts THEN Exhausted(counted)
       ELSE IF CodeEquals(counted.verification_code, verification_code)
            THEN Successful(counted, t)
            ELSE Invalid(counted)

\* the checks of verify_code on the selected row v at time t: the row as
\* committed, and the result returned
VerifyCodeBranch(v, verification_code, t) ==
    IF t > v.expires_at THEN Expired(v)
    ELSE IF v.attempts >= v.max_attempts THEN Exhausted(v)
    ELSE LET counted == [v EXCEPT !.attempts = @ + 1]
         IN IF CodeEquals(counted.verification_code, verification_code)
            THEN Successful(counted, t)
            ELSE Invalid(counted)

verify_code(request_id, verification_code, verification_type) ==
    /\ \E application \in ApplicationByRequestId(request_id) :
         IF application = NoRow
         THEN /\ lastCall' = Call("verify_code", application, verification_type,
                                  verification_code, "", NoRow, NoRow, FALSE,
                                  "Application not found")
              /\ UNCHANGED verifications
         ELSE \E verification \in first({i \in DOMAIN verifications :
                    PendingFilter(verifications[i], application, verification_type)}) :
                IF verification = NoRow
                THEN /\ lastCall' = Call("verify_code", application, verification_type,
                                         verification_code, "", NoRow, NoRow, FALSE,
                                         "Verification not found or already completed")
                     /\ UNCHANGED verifications
                ELSE LET out == VerifyCodeBranch(verifications[verification],
                                                 verification_code, now)
                     IN /\ verifications' =
                              [verifications EXCEPT ![verification] = out.row]
                        /\ lastCall' = Call("verify_code", application,
                                            verification_type, verification_code, "",
                                            verification, NoRow, out.success,
                                            out.message)
    /\ UNCHANGED <<now, outbox, applications, audit_logs>>

(* ----------------- update_identity_verification_status ----------------- *)
\* the filter of the identity Verification query (no status condition)
IdentityFilter(v, application_id) ==
    /\ v.application_id = application_id
    /\ v.verification_type = IDENTITY_DOCUMENT

\* the row as committed by the manual decision
ManualDecision(v, new_status, t) ==
    IF new_status = VERIFIED
    THEN [v EXCEPT !.status = new_status, !.verified_at = t]
    ELSE [v EXCEPT !.status = new_status]

update_identity_verification_status(application_id, new_status) ==
    /\ \E verification \in first({i \in DOMAIN verifications :
              IdentityFilter(verifications[i], application_id)}) :
         IF verification = NoRow
         THEN /\ lastCall' = Call("update_identity_verification_status",
                                  application_id, IDENTITY_DOCUMENT, NoneCode,
                                  new_status, NoRow, NoRow, FALSE,
                                  "Identity verification not found")
              /\ UNCHANGED verifications
         ELSE /\ verifications' =
                    [verifications EXCEPT ![verification] =
                         ManualDecision(verifications[verification], new_status, now)]
              /\ lastCall' = Call("update_identity_verification_status",
                                  application_id, IDENTITY_DOCUMENT, NoneCode,
                                  new_status, verification, NoRow, TRUE,
                                  "Identity verification updated")
    /\ UNCHANGED <<now, outbox, applications, audit_logs>>

(* ----------------------- get_verification_status ----------------------- *)
\* dict.get: the value of a missing key is None
NoneStatus == "None"
Get(dict, key) == IF key \in DOMAIN dict THEN dict[key] ELSE NoneStatus

\* The possible results of get_verification_status. The dict comprehension
\* keeps, for each verification_type, the status of the row of that type that
\* Query.all() returns last; the query has no ORDER BY, so any row of the type
\* may be that one
get_verification_status(application_id) ==
    LET rows == {i \in DOMAIN verifications :
                    verifications[i].application_id = application_id}
        types == {verifications[i].verification_type : i \in rows}
        lasts == {last \in [types -> rows] :
                    \A t \in types : verifications[last[t]].verification_type = t}
    IN {[t \in types |-> verifications[last[t]].status] : last \in lasts}

(* ------------------------------- clock --------------------------------- *)
\* datetime.utcnow() advances between calls; the clock is sampled once per
\* expiry window, so that a row is seen before, at and after its expires_at
Tick ==
    /\ now + ExpiryHours <= MaxNow
    /\ now' = now + ExpiryHours
    /\ lastCall' = NoCall
    /\ UNCHANGED <<verifications, calls, outbox, applications, audit_logs,
                   workflow, dispatched>>
    /\ EnumFrame

(* ------------------------------ behaviours ----------------------------- *)
\* one more service call within the budget of the behaviour
Counted ==
    /\ calls < MaxCalls
    /\ calls' = calls + 1

Initiate ==
    /\ Counted
    /\ UNCHANGED <<workflow, dispatched>>
    /\ EnumFrame
    /\ \E application \in Applications, verification_type \in VerificationType :
        initiate_verification(application, verification_type, DefaultCategory)

VerifyCode ==
    /\ Counted
    /\ UNCHANGED <<workflow, dispatched>>
    /\ EnumFrame
    /\ \E request_id \in RequestIds, verification_code \in SubmittedCodes,
       verification_type \in VerificationType :
        verify_code(request_id, verification_code, verification_type)

UpdateIdentity ==
    /\ Counted
    /\ UNCHANGED <<workflow, dispatched>>
    /\ EnumFrame
    /\ \E application_id \in Applications, new_status \in VerificationStatus :
        update_identity_verification_status(application_id, new_status)

Next == Initiate \/ VerifyCode \/ UpdateIdentity \/ Tick

Spec == Init /\ [][Next]_vars

\* the behaviours in which a commit of initiate_verification may fail
InitiateStorageError ==
    /\ Counted
    /\ UNCHANGED <<workflow, dispatched>>
    /\ EnumFrame
    /\ \E application \in Applications, verification_type \in VerificationType,
          commit \in InitiateCommits :
        initiate_verification_storage_error(application, verification_type, commit)

NextStorage == Next \/ InitiateStorageError

SpecStorage == Init /\ [][NextStorage]_vars

\* the behaviours in which the sender of the code may fail
InitiateSenderError ==
    /\ Counted
    /\ UNCHANGED <<workflow, dispatched>>
    /\ EnumFrame
    /\ \E application \in Applications, verification_type \in VerificationType :
        initiate_verification_sender_error(application, verification_type,
                                           DefaultCategory)

NextSender == Next \/ InitiateSenderError

SpecSender == Init /\ [][NextSender]_vars

(* ========================= concurrent requests ========================= *)
\* The service calls of the verification engine as the database sees them
\* when two requests are served at once: every query and every commit of a
\* call is a step of its own, and the steps of the two sessions interleave.
\* The engine is created without an isolation level, so a query reads what
\* has been committed when it runs, and a commit writes the attributes the
\* session has changed on the object it loaded.
SessionFrame ==
    UNCHANGED <<now, lastCall, applications, audit_logs, workflow, dispatched,
                enum_store, enum_cache, enum_channel, enum_tasks, services, intake>>

\* the session enters initiate_verification with the application it was given
initiate_verification_call(s, application, verification_type) ==
    /\ sessions[s].pc = "idle"
    /\ sessions' = [sessions EXCEPT ![s] =
            [Session EXCEPT !.pc = "select existing",
                            !.op = "initiate_verification",
                            !.application_id = application,
                            !.verification_type = verification_type]]
    /\ UNCHANGED <<verifications, outbox>>

\* lines 30-43: the query for a pending or expired row of the pair
select_existing(s) ==
    /\ sessions[s].pc = "select existing"
    /\ \E existing \in first({i \in DOMAIN verifications :
                ExistingFilter(verifications[i], sessions[s].application_id,
                               sessions[s].verification_type)}) :
          sessions' = [sessions EXCEPT
               ![s].row = existing,
               ![s].loaded = IF existing = NoRow THEN NoVerification
                             ELSE verifications[existing],
               ![s].pc = IF existing = NoRow THEN "commit create"
                         ELSE "commit invalidate"]
    /\ UNCHANGED <<verifications, outbox>>

\* lines 46-48: the row the query found is marked expired and committed
commit_invalidate(s) ==
    /\ sessions[s].pc = "commit invalidate"
    /\ verifications' = [verifications EXCEPT ![sessions[s].row].status = EXPIRED]
    /\ sessions' = [sessions EXCEPT ![s].pc = "commit create"]
    /\ UNCHANGED outbox

\* _create_verification (lines 106-119) inserts and commits the new pending
\* row; the code is then handed to the sender and the call returns
commit_create(s) ==
    /\ sessions[s].pc = "commit create"
    /\ Len(verifications) < MaxRecords
    /\ sessions' = [sessions EXCEPT ![s].pc = "idle",
                                    ![s].message = "initiated"]
    /\ \E code \in CodesFor(sessions[s].verification_type) :
          LET verification == NewVerification(sessions[s].application_id,
                                  DefaultCategory, sessions[s].verification_type,
                                  code, now)
          IN /\ verifications' = Append(verifications, verification)
             /\ outbox' = IF sessions[s].verification_type = IDENTITY_DOCUMENT
                          THEN outbox
                          ELSE _send_verification_code(Len(verifications) + 1,
                                    verification,
                                    TargetOf(sessions[s].verification_type))

\* the session enters verify_code; the application is looked up by its
\* request_id, and an unknown request_id ends the call
verify_code_call(s, request_id, verification_code, verification_type) ==
    /\ sessions[s].pc = "idle"
    /\ \E application \in ApplicationByRequestId(request_id) :
          sessions' = [sessions EXCEPT ![s] =
              [Session EXCEPT
                   !.pc = IF application = NoRow THEN "idle"
                          ELSE "select verification",
                   !.op = "verify_code",
                   !.application_id = IF application = NoRow THEN 0 ELSE application,
                   !.verification_type = verification_type,
                   !.verification_code = verification_code,
                   !.message = IF application = NoRow THEN "Application not found"
                               ELSE ""]]
    /\ UNCHANGED <<verifications, outbox>>

\* lines 153-168: the query for the pending row of the pair; the row's
\* attributes are loaded into the session as they are committed now
select_verification(s) ==
    /\ sessions[s].pc = "select verification"
    /\ \E verification \in first({i \in DOMAIN verifications :
                PendingFilter(verifications[i], sessions[s].application_id,
                              sessions[s].verification_type)}) :
          sessions' = [sessions EXCEPT
               ![s].row = verification,
               ![s].loaded = IF verification = NoRow THEN NoVerification
                             ELSE verifications[verification],
               ![s].pc = IF verification = NoRow THEN "idle" ELSE "commit verify",
               ![s].message = IF verification = NoRow
                              THEN "Verification not found or already completed"
                              ELSE ""]
    /\ UNCHANGED <<verifications, outbox>>

\* the UPDATE a commit issues for an object of the session: the attributes
\* that differ from the loaded ones are written with the values the session
\* computed, the others keep what is stored
flush(stored, loaded, changed) ==
    [stored EXCEPT
        !.status = IF changed.status # loaded.status THEN changed.status ELSE @,
        !.attempts = IF changed.attempts # loaded.attempts
                     THEN changed.attempts ELSE @,
        !.verified_at = IF changed.verified_at # loaded.verified_at
                        THEN changed.verified_at ELSE @]

\* lines 170-196: the checks of verify_code on the attributes the session
\* loaded, and the commit of what they changed
commit_verify(s) ==
    /\ sessions[s].pc = "commit verify"
    /\ LET out == VerifyCodeBranch(sessions[s].loaded,
                                   sessions[s].verification_code, now)
       IN /\ verifications' = [verifications EXCEPT ![sessions[s].row] =
                                   flush(@, sessions[s].loaded, out.row)]
          /\ sessions' = [sessions EXCEPT ![s].pc = "idle",
                                          ![s].message = out.message]
    /\ UNCHANGED outbox

InitiateCall ==
    /\ Counted
    /\ SessionFrame
    /\ \E s \in Sessions, application \in Applications,
         verification_type \in VerificationType :
          initiate_verification_call(s, application, verification_type)

SelectExisting ==
    /\ UNCHANGED calls
    /\ SessionFrame
    /\ \E s \in Sessions : select_existing(s)

CommitInvalidate ==
    /\ UNCHANGED calls
    /\ SessionFrame
    /\ \E s \in Sessions : commit_invalidate(s)

CommitCreate ==
    /\ UNCHANGED calls
    /\ SessionFrame
    /\ \E s \in Sessions : commit_create(s)

VerifyCodeCall ==
    /\ Counted
    /\ SessionFrame
    /\ \E s \in Sessions, request_id \in RequestIds,
         verification_code \in SubmittedCodes,
         verification_type \in VerificationType :
          verify_code_call(s, request_id, verification_code, verification_type)

SelectVerification ==
    /\ UNCHANGED calls
    /\ SessionFrame
    /\ \E s \in Sessions : select_verification(s)

CommitVerify ==
    /\ UNCHANGED calls
    /\ SessionFrame
    /\ \E s \in Sessions : commit_verify(s)

NextConcurrent ==
    \/ InitiateCall
    \/ SelectExisting
    \/ CommitInvalidate
    \/ CommitCreate
    \/ VerifyCodeCall
    \/ SelectVerification
    \/ CommitVerify

SpecConcurrent == Init /\ [][NextConcurrent]_vars

(* ======================== the application workflow ===================== *)
\* the retries celery grants process_application_workflow
max_retries == 3

\* no row of loan_applications has the id
NoApplication == [status |-> "absent", decision_reason |-> NoneReason]

\* str.upper() on the values of LoanApplicationStatus
upper(value) ==
    CASE value = SUBMITTED -> "SUBMITTED"
      [] value = AWAITING_VERIFICATION -> "AWAITING_VERIFICATION"
      [] value = VERIFIED -> "VERIFIED"
      [] value = PREPROCESSING -> "PREPROCESSING"
      [] value = DATA_ENRICHMENT -> "DATA_ENRICHMENT"
      [] value = SCORING -> "SCORING"
      [] value = MANUAL_REVIEW -> "MANUAL_REVIEW"
      [] value = APPROVED -> "APPROVED"
      [] value = REJECTED -> "REJECTED"
      [] value = ERROR -> "ERROR"

\* f"STATUS_CHANGED_{status.value.upper()}"
StatusChanged(status) == "STATUS_CHANGED_" \o upper(status)

\* str(e) of the exception a failed stage task raises through .get()
FailureText(task) == task \o " failed"

\* the rows a run of the verification engine leaves behind: a code issued to
\* a channel at time 0, and the row after the code was submitted back
IssuedTo(verification_type) ==
    NewVerification(1, DefaultCategory, verification_type,
                    CHOOSE code \in CodesFor(verification_type) : TRUE, 0)
VerifiedBy(verification_type) ==
    VerifyCodeBranch(IssuedTo(verification_type),
                     IssuedTo(verification_type).verification_code, 0).row

\* nothing verified, email verified with sms pending, both verified
VerificationSamples ==
    {<< >>,
     <<VerifiedBy(EMAIL), IssuedTo(SMS)>>,
     <<VerifiedBy(EMAIL), VerifiedBy(SMS)>>}

\* the sender calls made for the rows of a sample
OutboxOf(rows) ==
    [k \in DOMAIN rows |-> [verification_id |-> k,
                            verification_code |-> rows[k].verification_code,
                            method |-> rows[k].verification_type,
                            target |-> TargetOf(rows[k].verification_type)]]

\* The workflow starts either before the application is submitted (no row of
\* any table) or on a submitted application whose applicant has gone through
\* the verification engine; the verification rows are not written again
InitWorkflow ==
    /\ verifications \in VerificationSamples
    /\ outbox = OutboxOf(verifications)
    /\ now = 0
    /\ lastCall = NoCall
    /\ calls = 0
    /\ workflow = Idle
    /\ enum_store = SeededEnum
    /\ enum_cache = EmptyCache
    /\ enum_channel = << >>
    /\ enum_tasks = EnumTasks
    /\ services = Running
    /\ sessions = NoSessions
    /\ intake = NoIntake
    /\ IF verifications = << >>
       THEN /\ applications = [a \in Applications |-> NoApplication]
            /\ audit_logs = << >>
            /\ dispatched = << >>
       ELSE /\ applications = CreatedApplications
            /\ audit_logs = CreatedAuditLogs
            /\ dispatched = CreatedDispatches

\* what the workflow never writes
VerificationFrame ==
    /\ UNCHANGED <<verifications, now, lastCall, calls, outbox>>
    /\ EnumFrame

(* --------------------------- create_application ------------------------ *)
\* The endpoint and create_loan_application: a submission whose dynamic enum
\* fields do not validate is refused before any write; otherwise the row is
\* inserted as SUBMITTED, its audit row is written and the chain of the three
\* stage tasks is dispatched
create_application(application, valid) ==
    /\ applications[application] = NoApplication
    /\ IF valid
       THEN /\ applications' = [applications EXCEPT ![application] = SubmittedApplication]
            /\ audit_logs' = Append(audit_logs,
                                    AuditLog(application, "APPLICATION_SUBMITTED", NoneReason))
            /\ dispatched' = dispatched \o workflow_chain(RequestIdOf(application))
       ELSE UNCHANGED <<applications, audit_logs, dispatched>>
    /\ UNCHANGED workflow

(* ---------------------------- execute_workflow ------------------------- *)
\* a call of _update_status(application, status, reason)
_update_status(status, reason) ==
    [workflow EXCEPT !.pc = "_update_status", !.status = status, !.reason = reason]

\* lines 20-28: the application is loaded by request_id; without it the
\* invocation returns, with it the invocation goes on to the verification gate
execute_workflow(request_id, retries) ==
    \E application \in first({a \in Applications :
                                /\ RequestIdOf(a) = request_id
                                /\ applications[a] # NoApplication}) :
        workflow' = Position(IF application = NoRow THEN "idle"
                             ELSE "_wait_for_verification",
                             request_id, application, retries,
                             workflow.runs + 1, "", NoneReason)

\* the dispatcher delivers process_application_workflow(request_id), for the
\* first time or again
process_application_workflow(request_id) ==
    /\ workflow.pc = "idle"
    /\ workflow.runs < MaxRuns
    /\ execute_workflow(request_id, 0)
    /\ UNCHANGED <<applications, audit_logs, dispatched>>

\* lines 89-105: the gate reads the verification status; when email or sms is
\* not verified it records AWAITING_VERIFICATION and goes on, and in both
\* cases it records VERIFIED next
RequiredVerifications == {EMAIL, SMS}
Completed(status) == \A vtype \in RequiredVerifications : Get(status, vtype) = VERIFIED

_wait_for_verification ==
    /\ workflow.pc = "_wait_for_verification"
    /\ \E status \in get_verification_status(workflow.application) :
          workflow' = IF ~Completed(status)
                      THEN _update_status(AWAITING_VERIFICATION, NoneReason)
                      ELSE _update_status(VERIFIED, NoneReason)
    /\ UNCHANGED <<applications, audit_logs, dispatched>>

\* lines 112-117: the first commit of _update_status writes the status, and
\* the decision_reason when a reason is given
_update_status_commit ==
    /\ workflow.pc = "_update_status"
    /\ applications' = [applications EXCEPT ![workflow.application] =
            LoanApplication(workflow.status,
                            IF workflow.reason # NoneReason THEN workflow.reason
                            ELSE @.decision_reason)]
    /\ workflow' = [workflow EXCEPT !.pc = "audit_log"]
    /\ UNCHANGED <<audit_logs, dispatched>>

\* execute_workflow is left, by return or by the exception raised again: its
\* locals are gone
Leave(pc) ==
    [workflow EXCEPT !.pc = pc, !.enrichment_result = NoResult,
                     !.scoring_result = NoResult]

\* Faulty variant: execute_workflow returns once SCORING has been recorded
AfterUpdate_ReturnsAtScoring(status) ==
    CASE status = AWAITING_VERIFICATION -> _update_status(VERIFIED, NoneReason)
      [] status = VERIFIED -> _update_status(PREPROCESSING, NoneReason)
      [] status = PREPROCESSING -> [workflow EXCEPT !.pc = "preprocess_application"]
      [] status = DATA_ENRICHMENT -> [workflow EXCEPT !.pc = "enrich_application_data"]
      [] status = SCORING -> Leave("idle")
      [] status \in {APPROVED, REJECTED, MANUAL_REVIEW} -> Leave("idle")
      [] status = ERROR -> Leave("raise")

\* the statement execute_workflow goes on with after _update_status(status)
\* has returned
AfterUpdate(status) ==
    CASE status = AWAITING_VERIFICATION -> _update_status(VERIFIED, NoneReason)
      [] status = VERIFIED -> _update_status(PREPROCESSING, NoneReason)
      [] status = PREPROCESSING -> [workflow EXCEPT !.pc = "preprocess_application"]
      [] status = DATA_ENRICHMENT -> [workflow EXCEPT !.pc = "enrich_application_data"]
      [] status = SCORING -> [workflow EXCEPT !.pc = "calculate_risk_score"]
      [] status \in {APPROVED, REJECTED, MANUAL_REVIEW} -> Leave("idle")
      [] status = ERROR -> Leave("raise")

\* lines 120-127: the second commit of _update_status writes the audit row
_update_status_audit_log ==
    /\ workflow.pc = "audit_log"
    /\ audit_logs' = Append(audit_logs,
                            AuditLog(workflow.application,
                                     StatusChanged(workflow.status), workflow.reason))
    /\ workflow' = AfterUpdate(workflow.status)
    /\ UNCHANGED <<applications, dispatched>>

(* ------------------------------ stage tasks ---------------------------- *)
\* task.delay(request_id).get(): the task is dispatched and its result, or
\* the exception it ended with after its own retries, comes back
delay(task) ==
    dispatched' = Append(dispatched, Dispatch(task, workflow.request_id, "execute_workflow"))

\* the except branch of execute_workflow: _update_status(ERROR, str(e))
Except(task) == _update_status(ERROR, FailureText(task))

\* line 36
preprocess_application(raises) ==
    /\ workflow.pc = "preprocess_application"
    /\ delay("preprocess_application")
    /\ workflow' = IF raises THEN Except("preprocess_application")
                   ELSE _update_status(DATA_ENRICHMENT, NoneReason)
    /\ UNCHANGED <<applications, audit_logs>>

\* random.choice of enrich_application_data
EnrichmentOutcomes == {"clean", "data_mismatch", "external_verification_failed"}

\* the dict enrich_application_data returns
EnrichmentResult(outcome) ==
    [status |-> IF outcome = "clean" THEN "success" ELSE "review_required",
     step |-> "enrichment",
     outcome |-> outcome,
     external_data_verified |-> outcome = "clean"]

\* Faulty variant: the enrichment result is not looked at, scoring always follows
enrich_application_data_AlwaysScoring(raises, outcome) ==
    /\ workflow.pc = "enrich_application_data"
    /\ delay("enrich_application_data")
    /\ workflow' = IF raises THEN Except("enrich_application_data")
                   ELSE [_update_status(SCORING, NoneReason)
                            EXCEPT !.enrichment_result = EnrichmentResult(outcome)]
    /\ UNCHANGED <<applications, audit_logs>>

\* lines 40-45 and 67-73
enrich_application_data(raises, outcome) ==
    /\ workflow.pc = "enrich_application_data"
    /\ delay("enrich_application_data")
    /\ LET enrichment_result == EnrichmentResult(outcome)
           update == IF enrichment_result.external_data_verified
                     THEN _update_status(SCORING, NoneReason)
                     ELSE _update_status(MANUAL_REVIEW, "Data verification required")
       IN workflow' = IF raises THEN Except("enrich_application_data")
                      ELSE [update EXCEPT !.enrichment_result = enrichment_result]
    /\ UNCHANGED <<applications, audit_logs>>

\* round(random.uniform(0.1, 0.9), 2), in hundredths
RiskScores == 10..90
ApproveAbove == 70
RejectBelow == 30

\* Faulty variant: a score at the upper threshold is approved
ScoringResult_ApproveAtThreshold(risk_score) ==
    [status |-> "success",
     step |-> "scoring",
     risk_score |-> risk_score,
     auto_approve |-> risk_score >= ApproveAbove,
     auto_reject |-> risk_score < RejectBelow]

\* the dict calculate_risk_score returns
ScoringResult(risk_score) ==
    [status |-> "success",
     step |-> "scoring",
     risk_score |-> risk_score,
     auto_approve |-> risk_score > ApproveAbove,
     auto_reject |-> risk_score < RejectBelow]

\* the decision of lines 49-66 on a scoring result
Decision(scoring_result) ==
    IF scoring_result.auto_approve
    THEN _update_status(APPROVED, "Auto-approved based on risk score")
    ELSE IF scoring_result.auto_reject
    THEN _update_status(REJECTED, "Auto-rejected based on risk score")
    ELSE _update_status(MANUAL_REVIEW, "Requires manual review")

\* lines 46-66
calculate_risk_score(raises, risk_score) ==
    /\ workflow.pc = "calculate_risk_score"
    /\ delay("calculate_risk_score")
    /\ LET scoring_result == ScoringResult(risk_score)
       IN workflow' =
            IF raises THEN Except("calculate_risk_score")
            ELSE [Decision(scoring_result) EXCEPT !.scoring_result = scoring_result]
    /\ UNCHANGED <<applications, audit_logs>>

(* ------------------------------- the task ------------------------------ *)
\* line 80 of execute_workflow and lines 23-28 of the task: the exception is
\* raised again, and the task asks for a retry: within max_retries
\* execute_workflow runs again from its first statement, beyond it the task
\* has failed
retry ==
    /\ workflow.pc = "raise"
    /\ IF workflow.retries < max_retries
       THEN /\ workflow.runs < MaxRuns
            /\ execute_workflow(workflow.request_id, workflow.retries + 1)
       ELSE workflow' = [workflow EXCEPT !.pc = "idle"]
    /\ UNCHANGED <<applications, audit_logs, dispatched>>

(* ------------------------------ behaviours ----------------------------- *)
CreateApplication ==
    /\ VerificationFrame
    /\ \E application \in Applications, valid \in BOOLEAN :
          create_application(application, valid)

ProcessApplicationWorkflow ==
    /\ VerificationFrame
    /\ \E request_id \in RequestIds : process_application_workflow(request_id)

WaitForVerification == VerificationFrame /\ _wait_for_verification

UpdateStatusCommit == VerificationFrame /\ _update_status_commit

UpdateStatusAuditLog == VerificationFrame /\ _update_status_audit_log

PreprocessApplication ==
    /\ VerificationFrame
    /\ \E raises \in BOOLEAN : preprocess_application(raises)

EnrichApplicationData ==
    /\ VerificationFrame
    /\ \E raises \in BOOLEAN, outcome \in EnrichmentOutcomes :
          enrich_application_data(raises, outcome)

CalculateRiskScore ==
    /\ VerificationFrame
    /\ \E raises \in BOOLEAN, risk_score \in RiskScores :
          calculate_risk_score(raises, risk_score)

Retry == VerificationFrame /\ retry

NextWorkflow ==
    \/ CreateApplication
    \/ ProcessApplicationWorkflow
    \/ WaitForVerification
    \/ UpdateStatusCommit
    \/ UpdateStatusAuditLog
    \/ PreprocessApplication
    \/ EnrichApplicationData
    \/ CalculateRiskScore
    \/ Retry

SpecWorkflow == InitWorkflow /\ [][NextWorkflow]_vars

\* The statements of a running execute_workflow follow one another in one
\* synchronous call, and .get() comes back once the stage task has returned
\* or has failed after its own retries: a running invocation keeps stepping.
\* The dispatcher's deliveries and retries are under no such obligation
ExecuteWorkflowStep ==
    \/ WaitForVerification
    \/ UpdateStatusCommit
    \/ UpdateStatusAuditLog
    \/ PreprocessApplication
    \/ EnrichApplicationData
    \/ CalculateRiskScore

\* the deliveries and retries of the dispatcher, followed for MaxFairRuns
\* invocations
ProcessApplicationWorkflowFair ==
    /\ workflow.runs < MaxFairRuns
    /\ ProcessApplicationWorkflow

RetryFair ==
    /\ workflow.retries < max_retries => workflow.runs < MaxFairRuns
    /\ Retry

NextWorkflowFair ==
    \/ CreateApplication
    \/ ProcessApplicationWorkflowFair
    \/ ExecuteWorkflowStep
    \/ RetryFair

SpecWorkflowFair ==
    InitWorkflow /\ [][NextWorkflowFair]_vars /\ WF_vars(ExecuteWorkflowStep)

(* ============================ enum resolution =========================== *)
\* what the verification engine and the workflow own
CoreFrame ==
    UNCHANGED <<verifications, now, lastCall, calls, outbox,
                applications, audit_logs, workflow, dispatched, sessions, intake>>

\* what a step of the enum functions and of the admin path leaves alone
ProgramFrame == CoreFrame /\ UNCHANGED services

\* the Redis server answers
Connected == services.redis = "connected"

\* the database is seeded, nothing is cached, nothing is published
InitEnums ==
    /\ verifications = << >>
    /\ now = 0
    /\ lastCall = NoCall
    /\ calls = 0
    /\ outbox = << >>
    /\ applications = CreatedApplications
    /\ audit_logs = CreatedAuditLogs
    /\ workflow = Idle
    /\ dispatched = CreatedDispatches
    /\ enum_store \in EnumStores
    /\ enum_cache = EmptyCache
    /\ enum_channel = << >>
    /\ enum_tasks = EnumTasks
    /\ services = Running
    /\ sessions = NoSessions
    /\ intake = NoIntake

NoneMax == "None"
\* lines 48-52: the info get_valid_enum_values builds from the rows, and
\* lines 101-118: the info get_enum_full_info builds, values by display_order
InfoOf(kind, values) ==
    IF kind = "enum_info"
    THEN [valid_values |-> values, is_multi_select |-> FALSE, max_selections |-> NoneMax]
    ELSE [enum_type |-> [name |-> EnumName, is_multi_select |-> FALSE,
                         max_selections |-> NoneMax],
          values |-> SelectSeq(EnumValues, LAMBDA value : value \in values)]

\* how a call ends: return info, or raise ValueError(f"Enum type ... not found")
Returned(info) == [raised |-> "None", value |-> info]
ValueError == [raised |-> "ValueError"]

\* a coroutine enters get_valid_enum_values or get_enum_full_info
call(position, kind) ==
    [position EXCEPT !.pc = "redis.get", !.kind = kind, !.info = NoInfo,
                     !.result = NoInfo]

\* A call ends with result. The request handler has its result; the
\* subscriber is in the try block of invalidate_enum_cache, lines 143-149: after
\* get_valid_enum_values it calls get_enum_full_info, an exception of either
\* is logged and ends the refresh
return(task, position, result) ==
    IF task = "subscriber" /\ position.kind = "enum_info" /\ result # ValueError
    THEN call(position, "enum_full_info")
    ELSE [position EXCEPT !.pc = "idle", !.info = NoInfo,
                          !.result = IF task = "handler" THEN result ELSE NoInfo]

\* every published message has been received and processed
Processed == enum_channel = << >> /\ enum_tasks.subscriber.pc = "idle"

\* a request resolves the enum: loan_application.py line 25 calls
\* get_valid_enum_values, endpoints/enums.py line 25 get_enum_full_info, each
\* with the client of Depends(get_redis_client), whose ping has succeeded
resolve(kind) ==
    /\ enum_tasks.handler.pc = "idle"
    /\ Connected
    /\ enum_tasks' = [enum_tasks EXCEPT
            !.handler = [call(@, kind) EXCEPT !.fresh = Processed],
            !.subscriber.concurrent = @ \/ enum_tasks.subscriber.pc # "idle"]
    /\ UNCHANGED <<enum_store, enum_cache, enum_channel>>

\* lines 26-30 and 75-79: cached = await redis.get(cache_key); a hit is returned
redis_get(task) ==
    /\ enum_tasks[task].pc = "redis.get"
    /\ Connected
    /\ LET cached == enum_cache[cache_key(enum_tasks[task].kind, EnumName)]
       IN enum_tasks' = [enum_tasks EXCEPT ![task] =
              IF cached # Absent
              THEN return(task, @, Returned(loads(cached)))
              ELSE [@ EXCEPT !.pc = "select EnumType"]]
    /\ UNCHANGED <<enum_store, enum_cache, enum_channel>>

\* lines 35-40 and 84-89: the active EnumType row is selected; without it
\* ValueError is raised
select_enum_type(task) ==
    /\ enum_tasks[task].pc = "select EnumType"
    /\ enum_tasks' = [enum_tasks EXCEPT ![task] =
              IF enum_store.is_active
              THEN [@ EXCEPT !.pc = "select EnumValue"]
              ELSE return(task, @, ValueError)]
    /\ UNCHANGED <<enum_store, enum_cache, enum_channel>>

\* Faulty variant: the rows are selected whether active or not
ActiveValues_EveryValue(rows) == {row.value : row \in rows.values}

\* lines 42-46 and 91-99: select ... where EnumValue.is_active == True
ActiveValues(rows) == {row.value : row \in {r \in rows.values : r.is_active}}

\* lines 42-52 and 91-118: the active EnumValue rows are selected and info is
\* built from them
select_enum_value(task) ==
    /\ enum_tasks[task].pc = "select EnumValue"
    /\ enum_tasks' = [enum_tasks EXCEPT ![task] =
              [@ EXCEPT !.pc = "redis.set",
                        !.info = InfoOf(enum_tasks[task].kind, ActiveValues(enum_store))]]
    /\ UNCHANGED <<enum_store, enum_cache, enum_channel>>

\* lines 54-59 and 120-125: await redis.set(cache_key, json.dumps(info), ex=...)
\* and return info (the key outlives every run considered here)
redis_set(task) ==
    /\ enum_tasks[task].pc = "redis.set"
    /\ Connected
    /\ enum_cache' = [enum_cache EXCEPT
            ![cache_key(enum_tasks[task].kind, EnumName)] = dumps(enum_tasks[task].info)]
    /\ enum_tasks' = [enum_tasks EXCEPT ![task] =
            return(task, @, Returned(enum_tasks[task].info))]
    /\ UNCHANGED <<enum_store, enum_channel>>

\* Faulty variant: only the key of get_valid_enum_values is invalidated
keys_SummaryOnly(enum_name) == <<cache_key("enum_info", enum_name)>>

\* line 137 of invalidate_enum_cache: the keys it deletes
keys(enum_name) ==
    <<cache_key("enum_info", enum_name), cache_key("enum_full_info", enum_name)>>

\* Faulty variant: every action is followed by a refresh
refresh_EveryAction(action) == TRUE

\* lines 175-178 of enum_changes_subscriber: refresh = action in ["update", "insert"]
refresh(action) == action \in {"update", "insert"}

\* Faulty variant: a payload that names no enum is invalidated like any other
receive_NamelessInvalidated(message) ==
    IF ~message.json THEN "JSONDecodeError"
    ELSE IF ~message.object THEN "AttributeError"
    ELSE "invalidate_enum_cache"

\* lines 169-183: what the body of a received message leads to: json.loads
\* raises JSONDecodeError, payload.get raises AttributeError on JSON that is no
\* object, a payload without enum_name is passed over, any other payload is
\* handed to invalidate_enum_cache
receive(message) ==
    IF ~message.json THEN "JSONDecodeError"
    ELSE IF ~message.object THEN "AttributeError"
    ELSE IF message.enum_name = NoneName THEN "if enum_name"
    ELSE "invalidate_enum_cache"

\* lines 165-186: the subscriber receives a message; JSONDecodeError is logged
\* in the loop, AttributeError is caught by the outer except, which sleeps
\* before the next poll
get_message ==
    /\ enum_tasks.subscriber.pc = "idle"
    /\ Connected
    /\ enum_channel # << >>
    /\ LET message == Head(enum_channel)
       IN enum_tasks' = [enum_tasks EXCEPT !.subscriber =
              CASE receive(message) = "invalidate_enum_cache" ->
                      [@ EXCEPT !.pc = "redis.delete", !.message = message, !.key = 1,
                                !.concurrent = enum_tasks.handler.pc # "idle"]
                [] receive(message) = "AttributeError" ->
                      [@ EXCEPT !.pc = "asyncio.sleep"]
                [] OTHER -> @]
    /\ enum_channel' = Tail(enum_channel)
    /\ UNCHANGED <<enum_store, enum_cache>>

\* line 186: await asyncio.sleep(5) is over, the loop polls again
sleep ==
    /\ enum_tasks.subscriber.pc = "asyncio.sleep"
    /\ enum_tasks' = [enum_tasks EXCEPT !.subscriber.pc = "idle", !.subscriber.key = 0]
    /\ UNCHANGED <<enum_store, enum_cache, enum_channel>>

\* lines 138-149 of invalidate_enum_cache: await redis.delete(key) for the
\* next key; after the last key the refresh starts, if the action asks for it
redis_delete ==
    /\ enum_tasks.subscriber.pc = "redis.delete"
    /\ Connected
    /\ LET position == enum_tasks.subscriber
           enum_name == position.message.enum_name
       IN /\ enum_cache' = [enum_cache EXCEPT ![keys(enum_name)[position.key]] = Absent]
          /\ enum_tasks' = [enum_tasks EXCEPT !.subscriber =
                 IF position.key < Len(keys(enum_name))
                 THEN [@ EXCEPT !.key = @ + 1]
                 ELSE IF refresh(position.message.action)
                 THEN [call(@, "enum_info") EXCEPT !.key = 0]
                 ELSE [@ EXCEPT !.pc = "idle", !.key = 0]]
    /\ UNCHANGED <<enum_store, enum_channel>>

\* the admin path, outside the core: the rows of the enum are written and the
\* change is published on enum_changes; no subscriber hears a message
\* published while the server cannot be reached
admin_write(rows, action) ==
    /\ Len(enum_channel) < MaxMessages
    /\ rows # enum_store
    /\ enum_store' = rows
    /\ enum_channel' = IF Connected THEN Append(enum_channel, Message(EnumName, action))
                       ELSE enum_channel
    /\ enum_tasks' = [enum_tasks EXCEPT !.handler.fresh = FALSE]
    /\ UNCHANGED enum_cache

\* a message the subscriber has to drop arrives on the channel
publish(message) ==
    /\ Len(enum_channel) < MaxMessages
    /\ Connected
    /\ enum_channel' = Append(enum_channel, message)
    /\ UNCHANGED <<enum_store, enum_cache, enum_tasks>>

Resolve == ProgramFrame /\ \E kind \in Kinds : resolve(kind)

RedisGet == ProgramFrame /\ \E task \in DOMAIN enum_tasks : redis_get(task)

SelectEnumType == ProgramFrame /\ \E task \in DOMAIN enum_tasks : select_enum_type(task)

SelectEnumValue == ProgramFrame /\ \E task \in DOMAIN enum_tasks : select_enum_value(task)

RedisSet == ProgramFrame /\ \E task \in DOMAIN enum_tasks : redis_set(task)

GetMessage == ProgramFrame /\ get_message

RedisDelete == ProgramFrame /\ redis_delete

AdminWrite ==
    /\ ProgramFrame
    /\ \E rows \in EnumStores, action \in EnumActions : admin_write(rows, action)

Publish ==
    /\ ProgramFrame
    /\ \E message \in {NotJson, NotObject, Message(NoneName, "update")} :
          publish(message)

Sleep == ProgramFrame /\ sleep

NextEnums ==
    \/ Resolve
    \/ RedisGet
    \/ SelectEnumType
    \/ SelectEnumValue
    \/ RedisSet
    \/ GetMessage
    \/ RedisDelete
    \/ AdminWrite
    \/ Publish
    \/ Sleep

SpecEnums == InitEnums /\ [][NextEnums]_vars

(* ----------------------------- cache faults ---------------------------- *)
\* the Redis server can no longer be reached: the messages on their way to
\* the subscriber are lost, the keys stay
disconnect ==
    /\ Connected
    /\ services' = [services EXCEPT !.redis = "disconnected"]
    /\ enum_channel' = << >>
    /\ UNCHANGED <<enum_store, enum_cache, enum_tasks>>

\* the server can be reached again; the next poll subscribes again
reconnect ==
    /\ ~Connected
    /\ services' = [services EXCEPT !.redis = "connected"]
    /\ UNCHANGED <<enum_store, enum_cache, enum_channel, enum_tasks>>

\* lines 165-167 and 184-186: pubsub.get_message raises, the outer except
\* logs the error and sleeps
get_message_error ==
    /\ enum_tasks.subscriber.pc = "idle"
    /\ ~Connected
    /\ enum_tasks' = [enum_tasks EXCEPT !.subscriber.pc = "asyncio.sleep"]
    /\ UNCHANGED <<enum_store, enum_cache, enum_channel, services>>

\* Faulty variant: the exception of redis.delete ends the subscriber
redis_delete_error_Terminates ==
    /\ enum_tasks.subscriber.pc = "redis.delete"
    /\ ~Connected
    /\ enum_tasks' = [enum_tasks EXCEPT !.subscriber.pc = "terminated"]
    /\ UNCHANGED <<enum_store, enum_cache, enum_channel, services>>

\* lines 138-139 and 184-186: redis.delete raises inside invalidate_enum_cache,
\* which does not catch it: the outer except of the subscriber logs the error
\* and sleeps, the message is not taken up again
redis_delete_error ==
    /\ enum_tasks.subscriber.pc = "redis.delete"
    /\ ~Connected
    /\ enum_tasks' = [enum_tasks EXCEPT !.subscriber.pc = "asyncio.sleep"]
    /\ UNCHANGED <<enum_store, enum_cache, enum_channel, services>>

\* lines 27-32 and 76-81: redis.get raises, the function logs a warning and
\* falls back to the database
redis_get_error(task) ==
    /\ enum_tasks[task].pc = "redis.get"
    /\ ~Connected
    /\ enum_tasks' = [enum_tasks EXCEPT ![task].pc = "select EnumType"]
    /\ UNCHANGED <<enum_store, enum_cache, enum_channel, services>>

\* lines 54-59 and 120-125: redis.set raises, the function logs a warning and
\* returns info
redis_set_error(task) ==
    /\ enum_tasks[task].pc = "redis.set"
    /\ ~Connected
    /\ enum_tasks' = [enum_tasks EXCEPT ![task] =
            return(task, @, Returned(enum_tasks[task].info))]
    /\ UNCHANGED <<enum_store, enum_cache, enum_channel, services>>

\* caching.py lines 78-80: what get_redis_client raises when the ping fails
RedisConnectionError == [raised |-> "RuntimeError: Redis connection error"]

\* caching.py lines 68-80: the ping of get_redis_client raises, the dependency
\* raises RuntimeError and the request ends before its handler is called
resolve_error(kind) ==
    /\ enum_tasks.handler.pc = "idle"
    /\ ~Connected
    /\ enum_tasks' = [enum_tasks EXCEPT
            !.handler = [@ EXCEPT !.kind = kind, !.result = RedisConnectionError,
                                  !.fresh = FALSE]]
    /\ UNCHANGED <<enum_store, enum_cache, enum_channel, services>>

Disconnect == CoreFrame /\ disconnect

Reconnect == CoreFrame /\ reconnect

GetMessageError == CoreFrame /\ get_message_error

RedisDeleteError == CoreFrame /\ redis_delete_error

RedisGetError == CoreFrame /\ \E task \in DOMAIN enum_tasks : redis_get_error(task)

RedisSetError == CoreFrame /\ \E task \in DOMAIN enum_tasks : redis_set_error(task)

\* the steps of the subscriber task: the event loop resumes the coroutine
\* when the operation it awaits has returned, raised or timed out
SubscriberStep ==
    \/ GetMessage
    \/ RedisDelete
    \/ Sleep
    \/ GetMessageError
    \/ RedisDeleteError
    \/ CoreFrame /\ UNCHANGED services /\ redis_get("subscriber")
    \/ CoreFrame /\ UNCHANGED services /\ select_enum_type("subscriber")
    \/ CoreFrame /\ UNCHANGED services /\ select_enum_value("subscriber")
    \/ CoreFrame /\ UNCHANGED services /\ redis_set("subscriber")
    \/ CoreFrame /\ redis_get_error("subscriber")
    \/ CoreFrame /\ redis_set_error("subscriber")

ResolveError == CoreFrame /\ \E kind \in Kinds : resolve_error(kind)

\* the request handler alone with the admin path and a server that comes and
\* goes
NextCacheFaults ==
    \/ Resolve
    \/ ResolveError
    \/ CoreFrame /\ UNCHANGED services /\ redis_get("handler")
    \/ CoreFrame /\ UNCHANGED services /\ select_enum_type("handler")
    \/ CoreFrame /\ UNCHANGED services /\ select_enum_value("handler")
    \/ CoreFrame /\ UNCHANGED services /\ redis_set("handler")
    \/ CoreFrame /\ redis_get_error("handler")
    \/ CoreFrame /\ redis_set_error("handler")
    \/ AdminWrite
    \/ Disconnect
    \/ Reconnect

SpecCacheFaults == InitEnums /\ [][NextCacheFaults]_vars

(* ------------------------------- shutdown ------------------------------ *)
\* main.py lines 75-77: subscriber_task.cancel(): CancelledError is raised in
\* the subscriber at the await it is suspended at; no except clause of the
\* subscriber or of the functions it calls catches it, the task ends
cancel ==
    /\ services.shutdown = "None"
    /\ services' = [services EXCEPT !.shutdown = "await subscriber_task"]
    /\ enum_tasks' = [enum_tasks EXCEPT !.subscriber =
            [@ EXCEPT !.pc = "cancelled", !.cancelled_at = enum_tasks.subscriber.pc]]
    /\ UNCHANGED <<enum_store, enum_cache, enum_channel>>

\* main.py lines 78-83: await subscriber_task raises CancelledError, which is
\* logged
await_subscriber_task ==
    /\ services.shutdown = "await subscriber_task"
    /\ enum_tasks.subscriber.pc = "cancelled"
    /\ services' = [services EXCEPT !.shutdown = "db_session.close"]
    /\ UNCHANGED <<enum_store, enum_cache, enum_channel, enum_tasks>>

\* main.py lines 85-88: db_session.close()
close_db_session ==
    /\ services.shutdown = "db_session.close"
    /\ services' = [services EXCEPT !.shutdown = "close_redis_pool",
                                     !.db_session = "closed"]
    /\ UNCHANGED <<enum_store, enum_cache, enum_channel, enum_tasks>>

\* main.py lines 90-92: await close_redis_pool()
close_redis_pool ==
    /\ services.shutdown = "close_redis_pool"
    /\ services' = [services EXCEPT !.shutdown = "done", !.redis_pool = "closed"]
    /\ UNCHANGED <<enum_store, enum_cache, enum_channel, enum_tasks>>

Cancel == CoreFrame /\ cancel

AwaitSubscriberTask == CoreFrame /\ await_subscriber_task

CloseDbSession == CoreFrame /\ close_db_session

CloseRedisPool == CoreFrame /\ close_redis_pool

\* the subscriber with the admin path, and the shutdown of the process
NextShutdown ==
    \/ GetMessage
    \/ RedisDelete
    \/ Sleep
    \/ CoreFrame /\ UNCHANGED services /\ redis_get("subscriber")
    \/ CoreFrame /\ UNCHANGED services /\ select_enum_type("subscriber")
    \/ CoreFrame /\ UNCHANGED services /\ select_enum_value("subscriber")
    \/ CoreFrame /\ UNCHANGED services /\ redis_set("subscriber")
    \/ AdminWrite
    \/ Publish
    \/ Cancel
    \/ AwaitSubscriberTask
    \/ CloseDbSession
    \/ CloseRedisPool

SpecShutdown == InitEnums /\ [][NextShutdown]_vars

\* the subscriber alone with the admin path and a server that comes and goes
NextSubscriberFaults ==
    \/ SubscriberStep
    \/ AdminWrite
    \/ Publish
    \/ Disconnect
    \/ Reconnect

SpecSubscriberFaults ==
    InitEnums /\ [][NextSubscriberFaults]_vars /\ WF_vars(SubscriberStep)

(* =============================== intake ================================ *)
\* POST /applications, statement by statement: the re-validation of the
\* dynamic enum fields, the insert of the application row and its commit, the
\* audit row and the commit of the endpoint, the dispatch of the chain.
IntakeFrame ==
    /\ UNCHANGED <<verifications, now, lastCall, calls, outbox, workflow>>
    /\ UNCHANGED <<enum_store, enum_cache, enum_channel, enum_tasks, services, sessions>>

InitIntake ==
    /\ InitWorkflow
    /\ verifications = << >>

\* what a call of get_valid_enum_values ends with on the rows of an enum: the
\* info of its active values, or ValueError when no active EnumType row has
\* the name
get_valid_enum_values(rows) ==
    IF rows.is_active THEN Returned(InfoOf("enum_info", ActiveValues(rows)))
    ELSE ValueError
Resolutions == {get_valid_enum_values(rows) : rows \in EnumStores}

\* the values a form may submit, and the income_type attribute read from it
SubmittedValues == {EnumValues[i] : i \in DOMAIN EnumValues}
IncomeTypes == {<<value>> : value \in SubmittedValues} \cup {MissingAttribute}
Submissions ==
    {ApplicationData(housing_type, education_level, marital_status, income_type) :
        housing_type \in SubmittedValues, education_level \in SubmittedValues,
        marital_status \in SubmittedValues, income_type \in IncomeTypes}

\* the endpoint is entered with the parsed submission
create_application_call(application_data) ==
    /\ intake.pc = "idle"
    /\ \E application \in Applications : applications[application] = NoApplication
    /\ intake' = [NoIntake EXCEPT !.pc = "_validate_dynamic_enums",
                                  !.application_data = application_data]
    /\ UNCHANGED <<applications, audit_logs, dispatched>>

\* Faulty variant: only housing_type is checked
_validate_dynamic_enums_HousingOnly(application_data, info) ==
    IF info[1] = ValueError THEN "ValueError"
    ELSE IF application_data.housing_type \notin info[1].value.valid_values
    THEN "ValueError"
    ELSE "None"

\* lines 25-50: the exception _validate_dynamic_enums raises, or None; info[k]
\* is what get_valid_enum_values ends with for DynamicEnums[k]
_validate_dynamic_enums(application_data, info) ==
    IF info[1] = ValueError THEN "ValueError"
    ELSE IF application_data.housing_type \notin info[1].value.valid_values
    THEN "ValueError"
    ELSE IF info[2] = ValueError THEN "ValueError"
    ELSE IF application_data.education_level \notin info[2].value.valid_values
    THEN "ValueError"
    ELSE IF info[3] = ValueError THEN "ValueError"
    ELSE IF application_data.marital_status \notin info[3].value.valid_values
    THEN "ValueError"
    ELSE IF info[4] = ValueError THEN "ValueError"
    ELSE IF application_data.income_type = MissingAttribute THEN "AttributeError"
    ELSE IF \E k \in DOMAIN application_data.income_type :
               application_data.income_type[k] \notin info[4].value.valid_values
    THEN "ValueError"
    ELSE "None"

\* lines 84-94 of the endpoint: ValueError is answered with 400, any other
\* exception with 500
status_code(exception) ==
    IF exception = "ValueError" THEN 400 ELSE 500

\* line 57 of create_loan_application, before its try block: an exception
\* leaves the service and the endpoint answers it
validate(info) ==
    /\ intake.pc = "_validate_dynamic_enums"
    /\ LET exception == _validate_dynamic_enums(intake.application_data, info)
       IN intake' = [intake EXCEPT
              !.info = info,
              !.pc = IF exception = "None" THEN "db.add(application)" ELSE "idle",
              !.status_code = IF exception = "None" THEN @ ELSE status_code(exception)]
    /\ UNCHANGED <<applications, audit_logs, dispatched>>

\* lines 68-91: the row is built with status SUBMITTED, added and committed
commit_application ==
    /\ intake.pc = "db.add(application)"
    /\ \E application \in Applications :
          /\ applications[application] = NoApplication
          /\ applications' = [applications EXCEPT ![application] = SubmittedApplication]
    /\ intake' = [intake EXCEPT !.pc = "_create_audit_log"]
    /\ UNCHANGED <<audit_logs, dispatched>>

\* lines 94-96 and 147-159: the audit row is added to the session; line 66 of
\* the endpoint commits it
commit_audit_log ==
    /\ intake.pc = "_create_audit_log"
    /\ \E application \in Applications :
          /\ applications[application] = SubmittedApplication
          /\ audit_logs' = Append(audit_logs,
                                  AuditLog(application, "APPLICATION_SUBMITTED", NoneReason))
    /\ intake' = [intake EXCEPT !.pc = "workflow_chain.delay"]
    /\ UNCHANGED <<applications, dispatched>>

\* lines 68-82 of the endpoint: the chain of the three stage tasks is
\* dispatched and 202 is answered
delay_workflow_chain ==
    /\ intake.pc = "workflow_chain.delay"
    /\ \E application \in Applications :
          /\ applications[application] = SubmittedApplication
          /\ dispatched' = dispatched \o workflow_chain(RequestIdOf(application))
    /\ intake' = [intake EXCEPT !.pc = "idle", !.status_code = 202]
    /\ UNCHANGED <<applications, audit_logs>>

CreateApplicationCall ==
    /\ IntakeFrame
    /\ \E application_data \in Submissions : create_application_call(application_data)

Validate ==
    /\ IntakeFrame
    /\ \E info \in [DOMAIN DynamicEnums -> Resolutions] : validate(info)

CommitApplication == IntakeFrame /\ commit_application

CommitAuditLog == IntakeFrame /\ commit_audit_log

DelayWorkflowChain == IntakeFrame /\ delay_workflow_chain

NextIntake ==
    \/ CreateApplicationCall
    \/ Validate
    \/ CommitApplication
    \/ CommitAuditLog
    \/ DelayWorkflowChain

SpecIntake == InitIntake /\ [][NextIntake]_vars

(* ------------------------- shorthands for claims ----------------------- *)
TerminalStatus == {VERIFIED, EXPIRED, FAILED}

PendingRows(application_id, verification_type) ==
    {i \in DOMAIN verifications :
        /\ verifications[i].application_id = application_id
        /\ verifications[i].verification_type = verification_type
        /\ verifications[i].status = PENDING}

\* lastCall is a verify_code call that selected a pending row
VerifiedACode == lastCall.op = "verify_code" /\ lastCall.row # NoRow

\* the selected row as the last call left it
After == verifications[lastCall.row]

\* C1: after any sequence of initiate_verification, verify_code and
\* update_identity_verification_status calls, every (application, channel)
\* pair has at most one pending Verification row.
C1_AtMostOnePending ==
    \A a \in Applications, t \in VerificationType :
        Cardinality(PendingRows(a, t)) <= 1

\* C2 as claimed: no call changes a row whose status is verified, expired or
\* failed to a different status.
C2_NoCallLeavesTerminal ==
    [][\A i \in DOMAIN verifications :
          verifications[i].status \in TerminalStatus
              => verifications'[i].status = verifications[i].status]_vars

\* C2 as amended: initiate_verification and verify_code never change a row
\* whose status is verified, expired or failed to a different status, and
\* the only status changes they make are pending -> verified, pending ->
\* expired and pending -> failed; update_identity_verification_status is the
\* one call that may overwrite a terminal status.
C2_TerminalKeptByInitiateAndVerifyCode ==
    [][lastCall'.op \in {"initiate_verification", "verify_code"}
          => \A i \in DOMAIN verifications :
                /\ i \in DOMAIN verifications'
                /\ verifications[i].status \in TerminalStatus
                      => verifications'[i].status = verifications[i].status
                /\ verifications'[i].status # verifications[i].status
                      => /\ verifications[i].status = PENDING
                         /\ verifications'[i].status \in TerminalStatus]_vars

\* C2 case: initiate_verification selected an already expired row and a
\* verified row of the same channel exists
C2_Witness ==
    /\ lastCall.op = "initiate_verification"
    /\ lastCall.row # NoRow
    /\ lastCall.before.status = EXPIRED
    /\ \E i \in DOMAIN verifications :
          /\ verifications[i].status = VERIFIED
          /\ verifications[i].verification_type = lastCall.verification_type

\* C3: a verify_code call made later than the selected row's expires_at
\* fails with "Verification code expired" and leaves the row expired, for
\* every value of attempts and also for the correct code; so no contact row
\* is verified later than its expires_at.
C3_ExpiryPrecedence ==
    /\ (VerifiedACode /\ now > lastCall.before.expires_at)
          => /\ ~lastCall.success
             /\ lastCall.message = "Verification code expired"
             /\ After.status = EXPIRED
    /\ (VerifiedACode /\ After.status = VERIFIED)
          => After.verified_at <= After.expires_at

\* C3 case: the correct code, submitted after expires_at with one attempt left
C3_Witness ==
    /\ VerifiedACode
    /\ now > lastCall.before.expires_at
    /\ lastCall.matches
    /\ lastCall.before.attempts = lastCall.before.max_attempts - 1
    /\ After.status = EXPIRED

\* C4 as claimed: after exactly max_attempts mismatched verify_code calls on
\* a freshly initiated, unexpired pending row, the row is failed.
C4_FailedAfterMaxMismatches ==
    (/\ VerifiedACode
     /\ lastCall.message = "Invalid verification code"
     /\ After.attempts = After.max_attempts)
        => After.status = FAILED

\* C4 as amended: after exactly max_attempts mismatched calls the row is
\* still pending with attempts = max_attempts; verify_code sets a row to
\* failed only in a later call that finds attempts >= max_attempts before
\* expiry, and that call returns "Maximum attempts exceeded".
C4_PendingAfterMaxMismatches ==
    /\ (/\ VerifiedACode
        /\ lastCall.message = "Invalid verification code"
        /\ After.attempts = After.max_attempts)
          => After.status = PENDING
    /\ (VerifiedACode /\ After.status = FAILED)
          => /\ lastCall.before.status = PENDING
             /\ lastCall.before.attempts >= lastCall.before.max_attempts
             /\ now <= lastCall.before.expires_at
             /\ ~lastCall.success
             /\ lastCall.message = "Maximum attempts exceeded"
    /\ (/\ VerifiedACode
        /\ now <= lastCall.before.expires_at
        /\ lastCall.before.attempts >= lastCall.before.max_attempts)
          => After.status = FAILED

\* C4 case: the call after max_attempts mismatches, which fails the row
C4_Witness ==
    /\ VerifiedACode
    /\ lastCall.before.attempts = lastCall.before.max_attempts
    /\ lastCall.message = "Maximum attempts exceeded"
    /\ After.status = FAILED

\* C5: a verify_code call that selects an unexpired row with attempts >=
\* max_attempts fails, also with the correct code, and does not verify the
\* row; no row ever counts more than max_attempts comparisons.
C5_NoVerifyAfterExhaustion ==
    /\ (VerifiedACode /\ lastCall.before.attempts >= lastCall.before.max_attempts)
          => /\ ~lastCall.success
             /\ After.status # VERIFIED
             /\ After.status \in {FAILED, EXPIRED}
    /\ \A i \in DOMAIN verifications :
          verifications[i].attempts <= verifications[i].max_attempts

\* C5 case: the correct code, submitted before expiry for a row with
\* attempts = max_attempts
C5_Witness ==
    /\ VerifiedACode
    /\ lastCall.matches
    /\ now <= lastCall.before.expires_at
    /\ lastCall.before.attempts >= lastCall.before.max_attempts
    /\ ~lastCall.success

\* C6: a mismatched verify_code call on an unexpired pending row with
\* attempts < max_attempts leaves the row pending with attempts incremented
\* by one, also when the incremented attempts equal max_attempts.
C6_PendingAfterMismatch ==
    (/\ VerifiedACode
     /\ now <= lastCall.before.expires_at
     /\ lastCall.before.attempts < lastCall.before.max_attempts
     /\ ~lastCall.matches)
        => /\ After.status = PENDING
           /\ After.attempts = lastCall.before.attempts + 1
           /\ After = [lastCall.before EXCEPT !.attempts = @ + 1]
           /\ ~lastCall.success
           /\ lastCall.message = "Invalid verification code"

\* C6 case: the mismatch that makes attempts equal to max_attempts
C6_Witness ==
    /\ VerifiedACode
    /\ ~lastCall.matches
    /\ lastCall.before.attempts = lastCall.before.max_attempts - 1
    /\ now <= lastCall.before.expires_at
    /\ After.attempts = After.max_attempts
    /\ After.status = PENDING

\* C7: verify_code for a channel that has a verified row and no pending row
\* returns failure "Verification not found or already completed" and changes
\* no row (so attempts, status and verified_at of the verified row stay),
\* for every submitted code and on every repetition.
C7_VerifiedRowUntouched ==
    [][\A a \in Applications, t \in VerificationType, c \in SubmittedCodes :
          (/\ verify_code(RequestIdOf(a), c, t)
           /\ PendingRows(a, t) = {}
           /\ \E i \in DOMAIN verifications :
                 /\ verifications[i].application_id = a
                 /\ verifications[i].verification_type = t
                 /\ verifications[i].status = VERIFIED)
              => /\ verifications' = verifications
                 /\ ~lastCall'.success
                 /\ lastCall'.message = "Verification not found or already completed"]_vars

\* C7 case: the call was made on a channel that has a verified row, verified
\* after earlier mismatches, and no pending row
C7_Witness ==
    /\ lastCall.op = "verify_code"
    /\ lastCall.row = NoRow
    /\ lastCall.message = "Verification not found or already completed"
    /\ PendingRows(lastCall.application_id, lastCall.verification_type) = {}
    /\ \E i \in DOMAIN verifications :
          /\ verifications[i].application_id = lastCall.application_id
          /\ verifications[i].verification_type = lastCall.verification_type
          /\ verifications[i].status = VERIFIED
          /\ verifications[i].verified_at # NoneTime
          /\ verifications[i].attempts > 0

\* C8: initiate_verification for email creates a pending row holding a code
\* of 6 digit characters; verify_code with that code, made no later than
\* expires_at while that row is the channel's pending row and has attempts
\* left (as it has right after initiation), returns success
\* "Verification successful" and leaves the row verified with verified_at
\* stamped.
C8_HappyPath ==
    [][/\ \A a \in Applications :
             initiate_verification(a, EMAIL, DefaultCategory)
                => LET created == verifications'[Len(verifications')]
                   IN /\ Len(verifications') = Len(verifications) + 1
                      /\ created.application_id = a
                      /\ created.verification_type = EMAIL
                      /\ created.status = PENDING
                      /\ created.attempts = 0
                      /\ created.verified_at = NoneTime
                      /\ created.expires_at = now + ExpiryHours
                      /\ Len(created.verification_code) = 6
                      /\ \A k \in 1..6 :
                            created.verification_code[k] \in string_digits
                      /\ lastCall'.success
       /\ \A i \in DOMAIN verifications :
             LET v == verifications[i]
             IN (/\ v.verification_type = EMAIL
                 /\ v.attempts < v.max_attempts
                 /\ PendingRows(v.application_id, EMAIL) = {i}
                 /\ now <= v.expires_at
                 /\ verify_code(RequestIdOf(v.application_id),
                                v.verification_code, EMAIL))
                   => /\ lastCall'.success
                      /\ lastCall'.message = "Verification successful"
                      /\ verifications'[i].status = VERIFIED
                      /\ verifications'[i].verified_at = now
                      /\ verifications'[i].verified_at # NoneTime]_vars

\* C8 case: the first verify_code call on an email row, with its code,
\* succeeded
C8_Witness ==
    /\ VerifiedACode
    /\ lastCall.verification_type = EMAIL
    /\ lastCall.before.attempts = 0
    /\ lastCall.matches
    /\ lastCall.success
    /\ After.status = VERIFIED

\* C9: every verify_code call that reaches the code comparison (selected
\* row pending, not expired, attempts < max_attempts) increases attempts by
\* exactly 1, also when the code matches and the row becomes verified.
C9_AttemptsCountedOnEveryComparison ==
    (/\ VerifiedACode
     /\ now <= lastCall.before.expires_at
     /\ lastCall.before.attempts < lastCall.before.max_attempts)
        => /\ After.attempts = lastCall.before.attempts + 1
           /\ lastCall.matches => After.status = VERIFIED
           /\ lastCall.message \in {"Verification successful",
                                    "Invalid verification code"}

\* C9 case: a matching code, counted as an attempt after an earlier mismatch
C9_Witness ==
    /\ VerifiedACode
    /\ lastCall.matches
    /\ lastCall.success
    /\ lastCall.before.attempts > 0
    /\ After.attempts = lastCall.before.attempts + 1
    /\ After.status = VERIFIED

\* C10: a verify_code call that ends in the expiry branch or in the
\* attempts-exhausted branch leaves the attempts of the row unchanged.
C10_NoIncrementOnExpiryOrExhaustion ==
    (/\ VerifiedACode
     /\ \/ now > lastCall.before.expires_at
        \/ lastCall.before.attempts >= lastCall.before.max_attempts)
        => /\ After.attempts = lastCall.before.attempts
           /\ lastCall.message \in {"Verification code expired",
                                    "Maximum attempts exceeded"}
           /\ After.status \in {EXPIRED, FAILED}

\* C10 case: the expiry branch taken on a row that still had attempts left
C10_Witness ==
    /\ VerifiedACode
    /\ lastCall.message = "Verification code expired"
    /\ lastCall.before.attempts > 0
    /\ lastCall.before.attempts < lastCall.before.max_attempts
    /\ After.attempts = lastCall.before.attempts

\* C11: a verify_code call whose request_id matches no application returns
\* failure with the message 'Application not found' and changes no
\* Verification, LoanApplication or AuditLog row.
C11_UnknownRequestChangesNothing ==
    [][\A verification_code \in SubmittedCodes, verification_type \in VerificationType :
          verify_code(UnknownRequestId, verification_code, verification_type)
              => /\ ~lastCall'.success
                 /\ lastCall'.message = "Application not found"
                 /\ UNCHANGED <<verifications, applications, audit_logs>>]_vars

\* C11 case: the unknown request_id is submitted for a channel that has a
\* pending row, with the code of that row
C11_Witness ==
    /\ lastCall.op = "verify_code"
    /\ lastCall.message = "Application not found"
    /\ \E i \in DOMAIN verifications :
          /\ verifications[i].status = PENDING
          /\ verifications[i].verification_type = lastCall.verification_type
          /\ verifications[i].verification_code # NoneCode

\* C12: initiate_verification leaves no partial write on a storage error: a
\* call that fails after it has marked the existing pending row expired does
\* not leave that row expired with no pending row of the channel.
C12_NoPartialWriteOnStorageError ==
    (/\ lastCall.op = "initiate_verification"
     /\ ~lastCall.success
     /\ lastCall.row # NoRow
     /\ lastCall.before.status = PENDING)
        => ~(/\ After.status = EXPIRED
             /\ PendingRows(lastCall.application_id, lastCall.verification_type) = {})

\* C13: every status transition of a Verification row (pending to verified,
\* expired or failed, supersession by a re-initiate, manual decision) is
\* committed together with exactly one AuditLog row.
C13_TransitionAuditedAtomically ==
    [][LET transitioned == {i \in DOMAIN verifications :
                              verifications'[i].status # verifications[i].status}
       IN Len(audit_logs') = Len(audit_logs) + Cardinality(transitioned)]_vars

\* the most recently created row of a channel of an application
LatestRow(application_id, verification_type) ==
    CHOOSE i \in DOMAIN verifications :
        /\ verifications[i].application_id = application_id
        /\ verifications[i].verification_type = verification_type
        /\ \A j \in DOMAIN verifications :
              (/\ verifications[j].application_id = application_id
               /\ verifications[j].verification_type = verification_type) => j <= i

\* C14: get_verification_status(application_id) returns, for every channel
\* with at least one row, the status of the most recently created row of
\* that channel, also when the channel has several rows.
C14_StatusOfLatestRow ==
    \A application_id \in Applications :
        \A status \in get_verification_status(application_id) :
            \A verification_type \in DOMAIN status :
                status[verification_type] =
                    verifications[LatestRow(application_id, verification_type)].status

\* C15: update_identity_verification_status overwrites the status of the
\* identity row whatever it was, stamps verified_at exactly when new_status is
\* verified, leaves attempts, expires_at and every email and sms row unchanged,
\* and the row it updates is the latest identity row of the application, so
\* that get_verification_status then reports new_status for identity_document.
C15_ManualDecisionOnLatestRow ==
    [][\A application_id \in Applications, new_status \in VerificationStatus :
          (/\ update_identity_verification_status(application_id, new_status)
           /\ \E i \in DOMAIN verifications :
                 IdentityFilter(verifications[i], application_id))
              => LET latest == LatestRow(application_id, IDENTITY_DOCUMENT)
                     before == verifications[latest]
                     after == verifications'[latest]
                 IN /\ after.status = new_status
                    /\ after.verified_at = IF new_status = VERIFIED THEN now
                                           ELSE before.verified_at
                    /\ after.attempts = before.attempts
                    /\ after.expires_at = before.expires_at
                    /\ \A i \in DOMAIN verifications :
                          i # latest => verifications'[i] = verifications[i]
                    /\ \A status \in get_verification_status(application_id)' :
                          status[IDENTITY_DOCUMENT] = new_status]_vars

\* the rows of the email and sms channels, in the order of their creation
ContactRows ==
    LET IsContact(i) == verifications[i].verification_type \in {EMAIL, SMS}
    IN SelectSeq([i \in DOMAIN verifications |-> i], IsContact)

\* C16: every Verification row has a generated code of six digits exactly
\* when its channel is email or sms, and none when it is identity_document;
\* the sender has been invoked once for each email or sms row, with the code
\* of the row and the address of its channel, and never for an
\* identity_document row; the row an initiate call created is pending and is
\* returned by the call, also when the sender fails.
C16_CodeAndNotificationPerChannel ==
    /\ \A i \in DOMAIN verifications :
          IF verifications[i].verification_type \in {EMAIL, SMS}
          THEN verifications[i].verification_code \in [1..CodeLength -> string_digits]
          ELSE verifications[i].verification_code = NoneCode
    /\ Len(outbox) = Len(ContactRows)
    /\ \A k \in DOMAIN outbox :
          LET row == verifications[ContactRows[k]]
          IN /\ outbox[k].verification_id = ContactRows[k]
             /\ outbox[k].verification_code = row.verification_code
             /\ outbox[k].method = row.verification_type
             /\ outbox[k].target = IF row.verification_type = EMAIL THEN "email"
                                   ELSE "phone"
    /\ (lastCall.op = "initiate_verification" /\ lastCall.created # NoRow)
          => /\ lastCall.success
             /\ lastCall.created = Len(verifications)
             /\ verifications[lastCall.created].status = PENDING
             /\ verifications[lastCall.created].verification_type =
                    lastCall.verification_type

\* the edges of the status graph of an application
StatusGraph ==
    {<<SUBMITTED, AWAITING_VERIFICATION>>, <<AWAITING_VERIFICATION, VERIFIED>>,
     <<VERIFIED, PREPROCESSING>>, <<PREPROCESSING, DATA_ENRICHMENT>>,
     <<DATA_ENRICHMENT, SCORING>>, <<DATA_ENRICHMENT, MANUAL_REVIEW>>,
     <<SCORING, APPROVED>>, <<SCORING, REJECTED>>, <<SCORING, MANUAL_REVIEW>>}

\* C17: for every application and every sequence of workflow invocations,
\* each change of the status of the application is an edge of the graph
\* SUBMITTED -> AWAITING_VERIFICATION -> VERIFIED -> PREPROCESSING ->
\* DATA_ENRICHMENT -> SCORING -> {APPROVED, REJECTED, MANUAL_REVIEW}, with
\* DATA_ENRICHMENT -> MANUAL_REVIEW, or an edge into ERROR.
C17_StatusFollowsGraph ==
    [][\A a \in Applications :
          (/\ applications[a] # NoApplication
           /\ applications'[a].status # applications[a].status)
              => \/ <<applications[a].status, applications'[a].status>> \in StatusGraph
                 \/ applications'[a].status = ERROR]_vars

\* the application of a request
ApplicationOf(request_id) == CHOOSE a \in Applications : RequestIdOf(a) = request_id

\* email and sms are verified in whatever get_verification_status reports
GateOpen(a) == \A status \in get_verification_status(a) : Completed(status)

\* C18: the verification gate: while email or sms of an application is not
\* verified, no stage task is dispatched for it, by execute_workflow or by
\* the creation of the application, and its status is set to nothing but
\* AWAITING_VERIFICATION.
C18_VerificationGate ==
    [][/\ \A k \in DOMAIN dispatched' :
             k > Len(dispatched) => GateOpen(ApplicationOf(dispatched'[k].request_id))
       /\ \A a \in Applications :
             (/\ applications[a] # NoApplication
              /\ applications'[a].status # applications[a].status
              /\ ~GateOpen(a))
                 => applications'[a].status = AWAITING_VERIFICATION]_vars

\* the stage tasks dispatched for an application
DispatchedFor(a) == SelectSeq(dispatched, LAMBDA d : d.request_id = RequestIdOf(a))

\* C19: ERROR is absorbing: once the status of an application is ERROR it does
\* not change again and no stage task of the application is dispatched, also
\* when the dispatcher retries the workflow task.
C19_ErrorAbsorbing ==
    [][\A a \in Applications :
          applications[a].status = ERROR
              => /\ applications'[a].status = ERROR
                 /\ DispatchedFor(a)' = DispatchedFor(a)]_vars

\* C20: once the status of an application is APPROVED, REJECTED or
\* MANUAL_REVIEW, no later invocation of execute_workflow changes its status
\* or its decision_reason.
C20_TerminalStatusKept ==
    [][\A a \in Applications :
          applications[a].status \in {APPROVED, REJECTED, MANUAL_REVIEW}
              => applications'[a] = applications[a]]_vars

\* the audit rows that record a stage of an application as completed: the
\* status change execute_workflow writes after the task of the stage returned
CompletionRows(a, task) ==
    CASE task = "preprocess_application" ->
            {AuditLog(a, StatusChanged(DATA_ENRICHMENT), NoneReason)}
      [] task = "enrich_application_data" ->
            {AuditLog(a, StatusChanged(SCORING), NoneReason),
             AuditLog(a, StatusChanged(MANUAL_REVIEW), "Data verification required")}
      [] task = "calculate_risk_score" ->
            {AuditLog(a, StatusChanged(APPROVED), "Auto-approved based on risk score"),
             AuditLog(a, StatusChanged(REJECTED), "Auto-rejected based on risk score"),
             AuditLog(a, StatusChanged(MANUAL_REVIEW), "Requires manual review")}
RecordedCompleted(a, task) ==
    \E k \in DOMAIN audit_logs : audit_logs[k] \in CompletionRows(a, task)

\* the dispatches a step adds
NewDispatches == {dispatched'[k] : k \in (DOMAIN dispatched') \ (DOMAIN dispatched)}

\* C21: re-invoking execute_workflow for the same request_id is safe: the
\* orchestrator does not dispatch again a stage that the persisted records
\* show as completed. (A stage task writes no application state, so running
\* it twice leaves the state of running it once.)
C21_CompletedStageNotDispatchedAgain ==
    [][\A d \in NewDispatches :
          d.by = "execute_workflow"
              => /\ ~RecordedCompleted(ApplicationOf(d.request_id), d.task)
                 /\ UNCHANGED applications]_vars

\* C22: the orchestrator converts a stage fault into one ERROR status
\* transition and one audit row carrying the failure text and does not raise
\* the exception again: execute_workflow returns to the task without exception.
C22_FaultNotRaisedAgain ==
    /\ workflow.status = ERROR /\ workflow.pc \notin {"_update_status", "audit_log"}
          => /\ applications[workflow.application] =
                    LoanApplication(ERROR, workflow.reason)
             /\ workflow.reason # NoneReason
             /\ audit_logs[Len(audit_logs)] =
                    AuditLog(workflow.application, StatusChanged(ERROR), workflow.reason)
    /\ workflow.pc # "raise"

\* the run in progress has an enrichment result with external_data_verified false
UnverifiedEnrichment ==
    /\ workflow.enrichment_result # NoResult
    /\ ~workflow.enrichment_result.external_data_verified

\* the audit rows a step adds
NewAuditLogs == {audit_logs'[k] : k \in (DOMAIN audit_logs') \ (DOMAIN audit_logs)}

\* C23: when the enrich stage returns external_data_verified = false, the run
\* goes from DATA_ENRICHMENT straight to MANUAL_REVIEW with decision_reason
\* 'Data verification required': the rest of the run dispatches no task (the
\* score stage is never dispatched), writes no audit row but
\* STATUS_CHANGED_MANUAL_REVIEW (none for SCORING), and ends with that status
\* and reason.
C23_UnverifiedEnrichmentToManualReview ==
    [][UnverifiedEnrichment
          => LET a == workflow.application
                 reason == "Data verification required"
             IN /\ workflow.status = MANUAL_REVIEW
                /\ workflow.reason = reason
                /\ dispatched[Len(dispatched)].task = "enrich_application_data"
                /\ dispatched' = dispatched
                /\ workflow.pc = "_update_status"
                      => audit_logs[Len(audit_logs)] =
                            AuditLog(a, StatusChanged(DATA_ENRICHMENT), NoneReason)
                /\ NewAuditLogs \subseteq
                      {AuditLog(a, StatusChanged(MANUAL_REVIEW), reason)}
                /\ workflow'.pc \in {"audit_log", "idle"}
                /\ workflow'.pc = "idle"
                      => /\ applications'[a] = LoanApplication(MANUAL_REVIEW, reason)
                         /\ NewAuditLogs # {}]_vars

\* C23 case: the status of a run whose enrichment came back as a data
\* mismatch has been committed as MANUAL_REVIEW
C23_Witness ==
    /\ UnverifiedEnrichment
    /\ workflow.enrichment_result.outcome = "data_mismatch"
    /\ workflow.pc = "audit_log"
    /\ applications[workflow.application] =
            LoanApplication(MANUAL_REVIEW, "Data verification required")

\* C24: for every risk score of the scored range, in hundredths 10..90, a score
\* above 70 is decided APPROVED, a score below 30 REJECTED, and every other
\* score, 30 and 70 included, MANUAL_REVIEW, each with its reason: exactly one
\* of the three, which is the status committed next.
C24_DecisionRule ==
    workflow.scoring_result # NoResult
        => LET risk_score == workflow.scoring_result.risk_score
               decision == IF risk_score > 70
                           THEN LoanApplication(APPROVED, "Auto-approved based on risk score")
                           ELSE IF risk_score < 30
                           THEN LoanApplication(REJECTED, "Auto-rejected based on risk score")
                           ELSE LoanApplication(MANUAL_REVIEW, "Requires manual review")
           IN /\ risk_score \in 10..90
              /\ workflow.pc \in {"_update_status", "audit_log"}
              /\ LoanApplication(workflow.status, workflow.reason) = decision
              /\ workflow.pc = "audit_log"
                    => applications[workflow.application] = decision

\* C24 case: the score of exactly 0.70 has been committed as MANUAL_REVIEW
C24_Witness ==
    /\ workflow.scoring_result # NoResult
    /\ workflow.scoring_result.risk_score = 70
    /\ workflow.pc = "audit_log"
    /\ applications[workflow.application].status = MANUAL_REVIEW

\* the STATUS_CHANGED rows of an application, oldest first
StatusRows(a) ==
    SelectSeq(audit_logs,
              LAMBDA row : /\ row.application_id = a
                           /\ row.event_type \in {StatusChanged(status) :
                                                     status \in LoanApplicationStatus})

\* the committed status of application a and its committed audit rows agree
StatusPaired(a) ==
    IF applications[a].status \in {NoApplication.status, SUBMITTED}
    THEN StatusRows(a) = <<>>
    ELSE /\ StatusRows(a) # <<>>
         /\ LET row == StatusRows(a)[Len(StatusRows(a))]
            IN /\ row.event_type = StatusChanged(applications[a].status)
               /\ row.reason # NoneReason => applications[a].decision_reason = row.reason

\* C25: every status transition of an application is paired atomically with
\* one STATUS_CHANGED_<STATE> audit row carrying the reason: in every state the
\* committed status has its matching committed row, no status write without
\* its row and no row without its status write.
C25_StatusPairedWithAuditRow == \A a \in Applications : StatusPaired(a)

\* the status execute_workflow writes before it dispatches a stage task, and
\* the stage before a stage
StageStatus(task) ==
    CASE task = "preprocess_application" -> PREPROCESSING
      [] task = "enrich_application_data" -> DATA_ENRICHMENT
      [] task = "calculate_risk_score" -> SCORING
StageBefore(task) ==
    CASE task = "enrich_application_data" -> "preprocess_application"
      [] task = "calculate_risk_score" -> "enrich_application_data"

\* when the dispatch d is made, the status of its stage and the audit row of
\* that status are committed, and the stage before it has returned
DispatchedInOrder(d) ==
    LET a == ApplicationOf(d.request_id)
    IN /\ applications[a].status = StageStatus(d.task)
       /\ StatusRows(a) # <<>>
       /\ StatusRows(a)[Len(StatusRows(a))] =
              AuditLog(a, StatusChanged(StageStatus(d.task)), NoneReason)
       /\ d.task # Stages[1] => RecordedCompleted(a, StageBefore(d.task))

\* C26: within one application the stages run strictly sequentially and in
\* order: the status write and the audit row of a stage are committed before
\* the task of the stage is dispatched, and the next stage is dispatched only
\* after the handler of the stage before it has returned.
C26_StagesSequential ==
    [][\A d \in NewDispatches : DispatchedInOrder(d)]_vars

\* C27: retry is local to the failing stage and bounded: the failure of one
\* stage never makes a retry execute again, as a replay of the whole chain, a
\* stage that already completed for the application.
C27_RetryLocalToStage ==
    [][workflow'.retries > 0
          => \A d \in NewDispatches :
                ~RecordedCompleted(ApplicationOf(d.request_id), d.task)]_vars

\* the values of the rows that are active in the record store now
CurrentValues == {"own" : row \in {r \in enum_store.values : r = EnumValue("own", TRUE)}}
                 \cup {"rent" : row \in {r \in enum_store.values : r = EnumValue("rent", TRUE)}}

\* what a call of kind returns from the rows the record store holds now
Resolved(kind) ==
    IF enum_store.is_active THEN Returned(InfoOf(kind, CurrentValues)) ELSE ValueError

\* C28: cache coherence: once the subscriber has fully processed an
\* invalidation message with action update for the enum, every resolve
\* started afterwards (and not overtaken by a later write) returns what the
\* record store holds, whatever calls were in flight while the message was
\* processed.
C28_CacheCoherence ==
    LET handler == enum_tasks.handler
    IN (/\ handler.pc = "idle"
        /\ handler.result # NoInfo
        /\ handler.fresh
        /\ enum_tasks.subscriber.message = Message(EnumName, "update"))
           => handler.result = Resolved(handler.kind)

\* the step with which the subscriber has processed the message it received
MessageProcessed ==
    /\ enum_tasks.subscriber.pc \notin {"idle", "asyncio.sleep"}
    /\ enum_tasks'.subscriber.pc = "idle"

\* C29: on a message with action insert or update naming the enum, the
\* subscriber deletes both keys and repopulates both from the record store:
\* when the message is processed, with the enum active, no request in a call
\* meanwhile and no later write, both keys hold what the current rows give.
C29_RefreshRepopulatesBothKeys ==
    [][(/\ MessageProcessed
        /\ enum_tasks.subscriber.message.action \in {"insert", "update"}
        /\ ~enum_tasks.subscriber.concurrent
        /\ enum_store.is_active
        /\ enum_channel = << >>)
           => \A kind \in Kinds :
                 enum_cache'[cache_key(kind, EnumName)] =
                     dumps(InfoOf(kind, CurrentValues))]_vars

\* C29 case: an update has been processed with no request in a call, and both
\* keys hold the info of the rows written
C29_Witness ==
    /\ enum_tasks.subscriber.pc = "idle"
    /\ enum_tasks.subscriber.message = Message(EnumName, "update")
    /\ ~enum_tasks.subscriber.concurrent
    /\ enum_channel = << >>
    /\ enum_store = EnumRows(TRUE, {EnumValue("own", TRUE), EnumValue("rent", FALSE)})
    /\ \A kind \in Kinds :
          enum_cache[cache_key(kind, EnumName)] = dumps(InfoOf(kind, {"own"}))

\* C30: on a message with action delete naming the enum, the subscriber
\* deletes both keys and does not repopulate them: when the message is
\* processed with no request in a call meanwhile, both keys are absent, and a
\* resolve that finds its key absent goes on to read the record store.
C30_DeleteLeavesKeysAbsent ==
    [][/\ (/\ MessageProcessed
           /\ enum_tasks.subscriber.message.action = "delete"
           /\ ~enum_tasks.subscriber.concurrent)
              => \A kind \in Kinds : enum_cache'[cache_key(kind, EnumName)] = Absent
       /\ (/\ enum_tasks.handler.pc = "redis.get"
           /\ enum_cache[cache_key(enum_tasks.handler.kind, EnumName)] = Absent
           /\ enum_tasks'.handler.pc # "redis.get")
              => enum_tasks'.handler.pc = "select EnumType"]_vars

\* C30 case: a delete has been processed with no request in a call, both keys
\* are absent, and the next resolve is reading the record store
C30_Witness ==
    /\ enum_tasks.subscriber.pc = "idle"
    /\ enum_tasks.subscriber.message = Message(EnumName, "delete")
    /\ ~enum_tasks.subscriber.concurrent
    /\ \A kind \in Kinds : enum_cache[cache_key(kind, EnumName)] = Absent
    /\ enum_tasks.handler.pc = "select EnumType"
    /\ enum_tasks.handler.fresh

\* C31: a message that is malformed JSON, JSON that is no object, or an object
\* without enum_name makes the subscriber change no cache key and does not end
\* it: the subscriber polls again, at once or after its sleep, with the
\* messages published meanwhile still to be received.
C31_MalformedMessageDropped ==
    [][/\ (/\ enum_tasks.subscriber.pc = "idle"
           /\ enum_channel # << >>
           /\ enum_channel' = Tail(enum_channel)
           /\ Head(enum_channel) \in {NotJson, NotObject, Message(NoneName, "update")})
              => /\ enum_cache' = enum_cache
                 /\ enum_tasks'.subscriber.pc \in {"idle", "asyncio.sleep"}
                 /\ enum_tasks'.subscriber.message = enum_tasks.subscriber.message
       /\ (/\ enum_tasks.subscriber.pc = "asyncio.sleep"
           /\ enum_tasks'.subscriber.pc # "asyncio.sleep")
              => /\ enum_tasks'.subscriber.pc = "idle"
                 /\ enum_cache' = enum_cache
                 /\ enum_channel' = enum_channel]_vars

\* C31 case: JSON that is no object has been received and dropped, and a
\* well-formed message published since waits for the next poll
C31_Witness ==
    /\ enum_tasks.subscriber.pc = "asyncio.sleep"
    /\ enum_channel # << >>
    /\ Head(enum_channel) = Message(EnumName, "update")

C34_CacheAdvisory ==
    [][/\ enum_tasks'.handler.result # RedisConnectionError
       /\ (/\ enum_tasks.handler.pc = "redis.set"
           /\ enum_tasks'.handler.pc = "idle")
              => enum_tasks'.handler.result = Returned(enum_tasks.handler.info)]_vars

\* C35: on a cache miss a resolve of a missing or inactive enum type fails
\* with NotFound and writes nothing to the cache; on a cache miss for an active
\* type the info built, and then returned, holds exactly the values of the
\* rows with is_active = true.
C35_MissResolvedFromActiveRows ==
    [][LET handler == enum_tasks.handler
       IN /\ (handler.pc = "select EnumType" /\ enum_tasks'.handler.pc # "select EnumType")
                => IF enum_store.is_active
                   THEN enum_tasks'.handler.pc = "select EnumValue"
                   ELSE /\ enum_tasks'.handler.pc = "idle"
                        /\ enum_tasks'.handler.result = ValueError
                        /\ enum_cache' = enum_cache
          /\ (handler.pc = "select EnumValue" /\ enum_tasks'.handler.pc = "redis.set")
                => /\ enum_tasks'.handler.info = InfoOf(handler.kind, CurrentValues)
                   /\ handler.kind = "enum_info"
                         => enum_tasks'.handler.info.valid_values = CurrentValues
          /\ (handler.pc = "redis.set" /\ enum_tasks'.handler.pc = "idle")
                => enum_tasks'.handler.result = Returned(handler.info)]_vars

\* C35 case: the values of an enum with an inactive row were resolved on a
\* miss and the inactive value is not among them
C35_Witness ==
    /\ enum_tasks.handler.pc = "idle"
    /\ enum_tasks.handler.fresh
    /\ EnumValue("rent", FALSE) \in enum_store.values
    /\ enum_tasks.handler.result = Returned(InfoOf("enum_info", {"own"}))

\* C33: graceful cancellation: the cancelled subscriber accepts no new poll,
\* an invalidation in flight is allowed to finish before the task exits, and
\* when shutdown has completed the task has ended and the store session and
\* the cache pool are closed.
C33_GracefulCancellation ==
    /\ enum_tasks.subscriber.pc = "cancelled"
          => enum_tasks.subscriber.cancelled_at \in {"idle", "asyncio.sleep"}
    /\ services.shutdown = "done"
          => /\ enum_tasks.subscriber.pc = "cancelled"
             /\ services.db_session = "closed"
             /\ services.redis_pool = "closed"

\* C38: in every state and for every verification row of every channel,
\* verified_at is set if and only if the status of the row is verified.
C38_VerifiedAtIffVerified ==
    \A i \in DOMAIN verifications :
        (verifications[i].verified_at # NoneTime) <=> (verifications[i].status = VERIFIED)


\* C36: once both sessions have returned from their calls, every pair of an
\* application and a channel has at most one pending row, also when the two
\* initiate_verification calls for the pair each ran their query for the
\* existing row before the other committed.
C36_OnePendingUnderConcurrency ==
    (\A s \in Sessions : sessions[s].pc = "idle")
        => \A i, j \in DOMAIN verifications :
              (/\ verifications[i].status = PENDING
               /\ verifications[j].status = PENDING
               /\ verifications[i].application_id = verifications[j].application_id
               /\ verifications[i].verification_type = verifications[j].verification_type)
                  => i = j

\* C37: under interleaved verify_code calls, every step that compares a
\* submitted code with a record raises the stored attempts of that record by
\* exactly one and leaves them at most max_attempts: no increment is lost and
\* no more than max_attempts comparisons are made.
C37_NoLostAttempt ==
    [][\A s \in Sessions :
          (/\ sessions[s].pc = "commit verify"
           /\ sessions'[s].pc = "idle"
           /\ sessions'[s].message \in {"Verification successful",
                                        "Invalid verification code"})
             => LET row == sessions[s].row
                IN /\ verifications'[row].attempts = verifications[row].attempts + 1
                   /\ verifications'[row].attempts <= verifications'[row].max_attempts]_vars



\* an invocation of execute_workflow on an existing application is under way
InExecuteWorkflow == workflow.pc \notin {"idle", "raise"}

\* C39: every invocation of execute_workflow on an existing application
\* terminates, and when it ends the application has status APPROVED, REJECTED,
\* MANUAL_REVIEW or ERROR, or is halted at AWAITING_VERIFICATION: it is not
\* left in PREPROCESSING, DATA_ENRICHMENT or SCORING.
C39_WorkflowTerminates ==
    /\ InExecuteWorkflow ~> ~InExecuteWorkflow
    /\ [][(InExecuteWorkflow /\ ~InExecuteWorkflow')
            => applications'[workflow.application].status \in
                  {APPROVED, REJECTED, MANUAL_REVIEW, ERROR, AWAITING_VERIFICATION}]_vars
C39_Witness ==
    /\ workflow.pc = "idle"
    /\ workflow.runs > 0
    /\ workflow.application # NoRow
    /\ applications[workflow.application].status = APPROVED

\* the submission under validation has a dynamic enum value that is not among
\* the valid_values resolved for its enum
InvalidSubmission ==
    /\ intake.info # << >>
    /\ \/ /\ intake.info[1] # ValueError
          /\ intake.application_data.housing_type \notin intake.info[1].value.valid_values
       \/ /\ intake.info[2] # ValueError
          /\ intake.application_data.education_level \notin intake.info[2].value.valid_values
       \/ /\ intake.info[3] # ValueError
          /\ intake.application_data.marital_status \notin intake.info[3].value.valid_values
       \/ /\ intake.info[4] # ValueError
          /\ intake.application_data.income_type # MissingAttribute
          /\ \E k \in DOMAIN intake.application_data.income_type :
                intake.application_data.income_type[k] \notin intake.info[4].value.valid_values

\* C40: a submission with a housing_type, education_level, marital_status or
\* income value outside the resolved valid_values creates no application row
\* and no audit row and dispatches no chain; and whenever a chain has been
\* dispatched, the application row with status SUBMITTED has been committed.
C40_ValidatedBeforeAnyWrite ==
    /\ InvalidSubmission =>
          /\ \A application \in Applications : applications[application] = NoApplication
          /\ audit_logs = << >>
          /\ dispatched = << >>
    /\ dispatched # << >> =>
          \E application \in Applications : applications[application].status = SUBMITTED
C40_Witness ==
    /\ InvalidSubmission
    /\ intake.pc = "idle"
    /\ intake.status_code = 400

====
